---- MODULE Spec2Model ----
(***************************************************************************)
(* Model of the snapshot compactor (snapshot-compactor.ts), the image       *)
(* migration with its streamed snapshot write (image-migration.ts), the    *)
(* focused-stream frame filter (focused-context-transform.ts) and the      *)
(* frame loop that feeds the agent effector (tool-agent-effector.ts) of    *)
(* signal-axon-host.                                                       *)
(***************************************************************************)
EXTENDS Integers, Sequences, FiniteSets, TLC

\* ------------------------------------------------------------------ bounds
MaxIds == 3        \* facet ids are 1..MaxIds
MaxSeq == 3        \* frame sequence numbers of a snapshot are 1..MaxSeq
MaxN == 2          \* retention counts (maxFrames) are 0..MaxN
MaxRuns == 2       \* successive compactions of one snapshot
MaxItems == 1      \* deltas + veilOps + events carried by one frame
MaxBuckets == 2    \* frame bucket files referenced by one snapshot
MaxLate == 2       \* live frames number up to SETUP_FRAME_LIMIT + MaxLate, at most MaxLate at once
MaxActs == 2        \* activation facets ever added to the live state
MaxLive == 2        \* frames the host processes after it started
MaxFacets == 2      \* entries of veilState.facets in a streamed snapshot
MaxFiles == 3       \* entries of the snapshot directory
MaxCalls == 1       \* tool calls carried by one response of the provider
MaxRounds == 2      \* maxToolRounds is 0..MaxRounds
MaxRetries == 2     \* maxRetries is 0..MaxRetries
MaxMsgs == 3        \* messages of a conversation handed to the Bedrock provider
MaxReconnects == 3  \* calls of reconnectBot for one bot
MaxContent == 4     \* characters of a speech facet's content
MaxPasses == 2      \* times the receptor is applied to one operation

\* ------------------------------------------------------------- data model
NoId == 0
Ids == 1..MaxIds
NoStream == "none"
Streams == {"p1", "p2"}

Speech == <<"speech">>
alwaysKeepTypes == {<<"element-", "tree">>, <<"host-state">>, <<"config">>, <<"agent-config">>}

\* type.startsWith(prefix), on types spelled as token sequences
StartsWith(type, prefix) ==
    Len(type) >= Len(prefix) /\ SubSeq(type, 1, Len(prefix)) = prefix

Facet(id, type, parentId, children) ==
    [id |-> id, type |-> type, parentId |-> parentId, children |-> children]

DeltaOn(type, id, streamId) == [type |-> type, id |-> id, streamId |-> streamId]

Delta(type, id) == DeltaOn(type, id, NoStream)

Event(shape, id) == [shape |-> shape, id |-> id]

Frame(sequence, activeStream, deltas, veilOps, events) ==
    [sequence |-> sequence, activeStream |-> activeStream,
     deltas |-> deltas, veilOps |-> veilOps, events |-> events]

\* delta kinds found in frames: addFacet (transform, effector), updateFacet
\* (SpeakerPrefixMaintainer), rewriteFacet / removeFacet (older writers),
\* deleteFacet (ToolAgentEffector's veil:operation)
DeltaTypes == {"addFacet", "updateFacet", "rewriteFacet", "removeFacet", "deleteFacet"}

\* where an event names a facet: payload.facetId, payload.facet.id, or inside
\* payload.operation (the veil:operation events this program emits)
EventShapes == {"payload.facetId", "payload.facet.id",
                "payload.operation.facetId", "payload.operation.facet.id"}

NoFrame == Frame(0, NoStream, <<>>, <<>>, <<>>)

Snapshot(facets, history, frameBucketRefs, compaction) ==
    [facets |-> facets, frameHistory |-> history,
     frameBucketRefs |-> frameBucketRefs, compaction |-> compaction]

NoCompaction == [originalFacets |-> 0, keptFacets |-> 0, maxFrames |-> 0, stamped |-> FALSE]

NoFile == [exists |-> FALSE, written |-> "none", data |-> <<>>]
FullFile(data) == [exists |-> TRUE, written |-> "full", data |-> data]
PartialFile(data) == [exists |-> TRUE, written |-> "partial", data |-> data]

\* bytes of more than one writer landed in the file: it parses as no snapshot
MixedFile == [exists |-> TRUE, written |-> "mixed", data |-> <<>>]

SnapshotPath == <<"snapshot.json">>
\* writing to the output path itself
TempPathInPlace(outputPath) == outputPath

\* const tempPath = outputPath + '.tmp'
TempPath(outputPath) == outputPath \o <<".tmp">>
Paths == {SnapshotPath, SnapshotPath \o <<".tmp">>}

\* where a file that is open for writing can be: at no path any more (its
\* name was renamed over), or not open at all
Unlinked == <<"unlinked">>
NoPath == <<>>

\* ---------------------------------------------------------------- helpers
SeqToSet(s) == {s[i] : i \in 1..Len(s)}

Min(a, b) == IF a < b THEN a ELSE b

\* frames.slice(-maxFrames): slice(-0) is slice(0), the whole array
SliceLast(s, n) ==
    IF n = 0 THEN s
    ELSE SubSeq(s, (IF Len(s) > n THEN Len(s) - n + 1 ELSE 1), Len(s))

\* Set.add on an insertion-ordered set; a falsy id is never added
AddId(s, id) ==
    IF id = NoId \/ id \in SeqToSet(s) THEN s ELSE Append(s, id)

\* one delta of frame.deltas / transition.veilOps
DeltaIds(acc, delta) ==
    IF delta.type = "addFacet" THEN AddId(acc, delta.id)
    ELSE IF delta.type = "rewriteFacet" THEN AddId(acc, delta.id)
    ELSE IF delta.type = "removeFacet" THEN AddId(acc, delta.id)
    ELSE acc

\* one event of frame.events
EventIds(acc, event) ==
    IF event.shape = "payload.facetId" THEN AddId(acc, event.id)
    ELSE IF event.shape = "payload.facet.id" THEN AddId(acc, event.id)
    ELSE acc

RECURSIVE FoldDeltas(_, _)
FoldDeltas(acc, ds) ==
    IF ds = <<>> THEN acc ELSE FoldDeltas(DeltaIds(acc, Head(ds)), Tail(ds))

RECURSIVE FoldEvents(_, _)
FoldEvents(acc, es) ==
    IF es = <<>> THEN acc ELSE FoldEvents(EventIds(acc, Head(es)), Tail(es))

RECURSIVE FoldFrames(_, _)
FoldFrames(acc, fs) ==
    IF fs = <<>> THEN acc
    ELSE FoldFrames(
           FoldEvents(FoldDeltas(FoldDeltas(acc, Head(fs).deltas), Head(fs).veilOps),
                      Head(fs).events),
           Tail(fs))

extractFacetIdsFromFrames(frames) == FoldFrames(<<>>, frames)

NoParents == [i \in Ids |-> NoId]

RECURSIVE SetChildren(_, _, _)
SetChildren(m, children, id) ==
    IF children = <<>> THEN m
    ELSE SetChildren([m EXCEPT ![Head(children)] = id], Tail(children), id)

\* the child -> parent Map of expandWithParentFacets: later set() calls overwrite
RECURSIVE BuildChildToParent(_, _)
BuildChildToParent(m, facets) ==
    IF facets = <<>> THEN m
    ELSE LET f == Head(facets)
             m1 == IF f.parentId # NoId THEN [m EXCEPT ![f.id] = f.parentId] ELSE m
         IN BuildChildToParent(SetChildren(m1, f.children, f.id), Tail(facets))

\* bucket files that load, in reference order; a bucket that fails is skipped
RECURSIVE LoadBuckets(_, _, _)
LoadBuckets(refs, files, ok) ==
    IF refs = <<>> THEN <<>>
    ELSE (IF Head(refs) \in ok THEN files[Head(refs)] ELSE <<>>)
         \o LoadBuckets(Tail(refs), files, ok)

\* loading that gives up at the first bucket that fails
RECURSIVE LoadBucketsUntilFailure(_, _, _)
LoadBucketsUntilFailure(refs, files, ok) ==
    IF refs = <<>> \/ Head(refs) \notin ok THEN <<>>
    ELSE files[Head(refs)] \o LoadBucketsUntilFailure(Tail(refs), files, ok)

loadFrameBuckets(refs, files, ok) == LoadBuckets(refs, files, ok)

\* every facet passes the test
ShouldKeepEvery(facet, referenced) == TRUE

\* the reference test alone
ShouldKeepReferenced(facet, referenced) == facet.id \in referenced

shouldKeep(facet, referenced) ==
    \/ facet.id \in referenced
    \/ facet.type \in alwaysKeepTypes
    \/ StartsWith(facet.type, <<"element-">>)
    \/ StartsWith(facet.type, <<"component-">>)

RECURSIVE FilterFacets(_, _)
FilterFacets(facets, referenced) ==
    IF facets = <<>> THEN <<>>
    ELSE (IF shouldKeep(Head(facets), referenced) THEN <<Head(facets)>> ELSE <<>>)
         \o FilterFacets(Tail(facets), referenced)

\* the ids the while-loop adds when it walks up from id; the loop ends only
\* on facet lists without an ownership cycle, which is where this is used
RECURSIVE ClimbFrom(_, _, _)
ClimbFrom(map, id, fuel) ==
    IF fuel = 0 \/ map[id] = NoId THEN {}
    ELSE {map[id]} \cup ClimbFrom(map, map[id], fuel - 1)

expandWithParentFacets(ids, facets) ==
    SeqToSet(ids) \cup
      UNION {ClimbFrom(BuildChildToParent(NoParents, facets), id, MaxIds) : id \in SeqToSet(ids)}

\* steps 2 to 6 of compactSnapshot in one piece: { ...snapshot, veilState: {
\* ...snapshot.veilState, facets: keptFacets, frameHistory: recentFrames }, _compaction }
compacted(snap, bucketFrames, n) ==
    LET recent == SliceLast(snap.frameHistory \o bucketFrames, n)
        kept == FilterFacets(snap.facets,
                             expandWithParentFacets(extractFacetIdsFromFrames(recent),
                                                    snap.facets))
    IN [snap EXCEPT !.facets = kept,
                    !.frameHistory = recent,
                    !.compaction = [originalFacets |-> Len(snap.facets),
                                    keptFacets |-> Len(kept),
                                    maxFrames |-> n, stamped |-> TRUE]]

\* ---------------------------------------------------------- migrateImages
\* a facet with one image attachment: "raw" is an image compressImage makes
\* smaller, "small" one it returns as it is
ImageFacet(id, parentId, image) ==
    [id |-> id, type |-> Speech, parentId |-> parentId, children |-> <<>>, image |-> image]

\* processFacetAttachments: the facet after the call, and the count it returns
processFacetAttachments(facet) ==
    IF "image" \in DOMAIN facet /\ facet.image = "raw"
    THEN [facet |-> [facet EXCEPT !.image = "small"], compressed |-> 1]
    ELSE [facet |-> facet, compressed |-> 0]

RECURSIVE imagesCompressed(_)
imagesCompressed(facets) ==
    IF facets = <<>> THEN 0
    ELSE processFacetAttachments(Head(facets)).compressed + imagesCompressed(Tail(facets))

\* the snapshot object after the for-loop over its facets
migrated(snap) ==
    [snap EXCEPT !.facets = [i \in 1..Len(snap.facets) |->
                                processFacetAttachments(snap.facets[i]).facet]]

\* ------------------------------------------------- FocusedContextTransform
SETUP_FRAME_LIMIT == 5

\* some delta of any kind is on this stream
HasDeltaOf(deltas, streamId) ==
    \E i \in 1..Len(deltas) : deltas[i].streamId = streamId

\* some addFacet delta of the frame carries a facet of this stream
HasFacetOf(deltas, streamId) ==
    \E i \in 1..Len(deltas) :
        deltas[i].type = "addFacet" /\ deltas[i].streamId = streamId

\* the callback with the setup-frame test ahead of the stream test
FrameFilterSetupFirst(frame, focused) ==
    IF focused = NoStream THEN TRUE
    ELSE IF frame.sequence <= SETUP_FRAME_LIMIT THEN TRUE
    ELSE IF frame.activeStream # NoStream THEN frame.activeStream = focused
    ELSE FALSE

\* the callback without the setup-frame rule
FrameFilterNoSetup(frame, focused) ==
    IF focused = NoStream THEN TRUE
    ELSE IF frame.activeStream # NoStream THEN frame.activeStream = focused
    ELSE HasFacetOf(frame.deltas, focused)

\* the callback with the facet test ahead of the frame's own stream
FrameFilterFacetFirst(frame, focused) ==
    IF focused = NoStream THEN TRUE
    ELSE IF HasFacetOf(frame.deltas, focused) THEN TRUE
    ELSE IF frame.activeStream # NoStream THEN frame.activeStream = focused
    ELSE frame.sequence <= SETUP_FRAME_LIMIT

\* the callback of fullState.frameHistory.filter(...)
FrameFilter(frame, focused) ==
    IF focused = NoStream THEN TRUE
    ELSE IF frame.activeStream # NoStream THEN frame.activeStream = focused
    ELSE IF frame.sequence <= SETUP_FRAME_LIMIT THEN TRUE
    ELSE HasFacetOf(frame.deltas, focused)

RECURSIVE FilterFrames(_, _)
FilterFrames(frames, focused) ==
    IF frames = <<>> THEN <<>>
    ELSE (IF FrameFilter(Head(frames), focused) THEN <<Head(frames)>> ELSE <<>>)
         \o FilterFrames(Tail(frames), focused)

\* the current frame pushed whatever stream it declares
AddCurrentFrameAnyStream(filtered, cur, focused) ==
    IF cur = NoFrame THEN filtered
    ELSE IF \E i \in 1..Len(filtered) : filtered[i].sequence = cur.sequence THEN filtered
    ELSE Append(filtered, cur)

\* "Add current frame if it matches"
AddCurrentFrame(filtered, cur, focused) ==
    IF cur = NoFrame THEN filtered
    ELSE IF \E i \in 1..Len(filtered) : filtered[i].sequence = cur.sequence THEN filtered
    ELSE IF cur.activeStream = NoStream \/ focused = NoStream \/ cur.activeStream = focused
         THEN Append(filtered, cur)
         ELSE filtered

\* ------------------------------------------------------------------ state
VARIABLES
    fs,                  \* the files: path -> file
    buckets,             \* buckets/<hash>.json: bucket ref -> frames
    bucketOk,            \* the bucket refs whose file reads and parses
    maxFrames,           \* config.maxFrames
    pc,                  \* where compactSnapshot stands
    run,                 \* which compaction of this snapshot is running
    original,            \* what the snapshot path held when the run began
    snapshot,            \* JSON.parse(snapshotData)
    recentFrames,        \* frames.slice(-maxFrames)
    facetIds,            \* directly referenced ids, in insertion order
    childToParent,       \* Map of expandWithParentFacets
    expanded,            \* Set of expandWithParentFacets
    todo,                \* ids the for-loop has still to walk from
    current,             \* the while-loop's cursor (NoId between walks)
    compactedSnapshot,   \* the snapshot to write
    outs,                \* what each completed run renamed into place
    frameHistory,        \* fullState.frameHistory, the live frame history
    currentFrame,        \* space.getCurrentFrame(), or NoFrame
    focusedStreamId,     \* activationState.streamRef?.streamId, or NoStream
    filteredFrames,      \* what the filter callback let through
    allFrames,           \* the frames handed to the HUD
    tpc,                 \* where the transform stands
    wpc,                 \* where each concurrent writer of the snapshot stands
    wN,                  \* the maxFrames of each concurrent compaction
    wout,                \* the snapshot each concurrent writer is to write
    wfd,                 \* the path at which the file a writer has open now is
    marker,              \* .image-migration-complete exists
    maxConversationFrames, \* CONFIG.max_conversation_frames
    stateFacets,         \* state.facets: the activations and rendered contexts, in Map order
    phase,               \* where the Space stands in the frame in progress
    mounted,             \* this.element?.findSpace() finds the Space
    windows,             \* the frame selections the pass in progress or just over computed
    returned,            \* the deltas process() returned, until the Space applies them
    processingActivations, \* ToolAgentEffector.processingActivations
    cycles,              \* the agent cycles started so far
    emitted,             \* the veil:operation events emitted and not yet in a frame
    document,            \* the snapshot passed to streamWriteSnapshot
    handed,              \* the chunks passed to stream.write so far, in order
    spc,                 \* where the async body of streamWriteSnapshot stands
    needDrain,           \* the last stream.write returned false and no drain came since
    sink,                \* the write stream: open, errored or finished
    promise,             \* the promise streamWriteSnapshot returned
    dir,                 \* readdir(snapshotDir): the names, or Unreadable
    latest,              \* what findLatestSnapshot returned, or null
    cli,                 \* where the compactor's CLI stands
    maxToolRounds,       \* ToolLoopAgent.maxToolRounds
    apc,                 \* where runCycle stands
    response,            \* the provider's last response
    toolRounds,          \* runCycle's toolRounds
    toolResults,         \* the results of the round in progress
    request,             \* the messages of the last call made to the provider
    generated,           \* calls of provider.generate made by this cycle
    resultsSent,         \* calls of provider.sendToolResults made by this cycle
    obtained,            \* the tool_use ids of the results sent in the rounds so far
    providerKind,        \* "anthropic" or "bedrock": the provider whose generate runs
    maxRetries,          \* this.maxRetries
    retryDelay,          \* this.retryDelay, in milliseconds
    attempt,             \* the loop variable of generate's retry loop
    apiCalls,            \* how many times the API has been called
    lastError,           \* the error caught last
    gpc,                 \* where generate stands: "off", "try", "sleep", "returned", "thrown"
    delays,              \* the delays slept so far, in order
    raised,              \* the message of the error generate has thrown
    sourceCopy,          \* which copy of the Bedrock provider runs: "part_002" or "bedrock-provider"
    llmMessages,         \* the messages argument of the Bedrock provider's call
    bpc,                 \* "off", "ready", "generate" or "sendToolResults": the call made
    bedrockMessages,     \* the message list of the request body
    chains,              \* per reconnectBot call: its message (0: none) and how far its stop/start chain is
    pendingMessages,     \* pendingMessages.get(botPhone); no entry is the empty sequence
    reEmitted,           \* the payloads of the 'signal:message' events emitted again, in order
    opType,              \* payload.operation.type of the veil:operation event
    opFacet,             \* payload.operation.facet, which the receptor changes in place
    contents,            \* facet.content at the start and after each pass of the receptor
    returnedDeltas       \* what the passes have returned, one entry per pass

cvars == <<fs, buckets, bucketOk, maxFrames, pc, run, original, snapshot, recentFrames,
           facetIds, childToParent, expanded, todo, current, compactedSnapshot, outs>>

fvars == <<frameHistory, currentFrame, focusedStreamId, filteredFrames, allFrames, tpc>>

wvars == <<wpc, wN, wout, wfd, marker>>

hvars == <<maxConversationFrames, stateFacets, phase, mounted, windows, returned,
           processingActivations,
           cycles, emitted>>

\* the one compactor's variables other than the files
mvars == <<buckets, bucketOk, maxFrames, pc, run, original, snapshot, recentFrames,
           facetIds, childToParent, expanded, todo, current, compactedSnapshot, outs>>

svars == <<document, handed, spc, needDrain, sink, promise>>

dvars == <<dir, latest, cli>>

avars == <<maxToolRounds, apc, response, toolRounds, toolResults, request, generated,
           resultsSent, obtained>>

\* the variables of the agent, the providers, the reconnection and the receptor
gvars == <<providerKind, maxRetries, retryDelay, attempt, apiCalls, lastError, gpc, delays, raised>>

bvars == <<sourceCopy, llmMessages, bpc, bedrockMessages>>

rvars == <<chains, pendingMessages, reEmitted>>

tvars == <<opType, opFacet, contents, returnedDeltas>>

xvars == <<avars, gvars, bvars, rvars, tvars>>

vars == <<cvars, fvars, wvars, hvars, svars, dvars, xvars>>

EmptySnapshot == Snapshot(<<>>, <<>>, <<>>, NoCompaction)

\* the in-memory state of a run that has not loaded anything (or has ended)
ClearMemory ==
    /\ snapshot' = EmptySnapshot
    /\ recentFrames' = <<>>
    /\ facetIds' = <<>>
    /\ childToParent' = NoParents
    /\ expanded' = {}
    /\ todo' = <<>>
    /\ current' = NoId
    /\ compactedSnapshot' = EmptySnapshot

\* ------------------------------------------------------- compactSnapshot
TerminalPc == {"done", "failed", "crashed", "off"}

\* stat, readFile, JSON.parse, the frames of frameHistory and of the buckets,
\* slice(-maxFrames), extractFacetIdsFromFrames, and the Map and Set that
\* expandWithParentFacets starts from
LoadSnapshot ==
    /\ pc = "start"
    /\ fs[SnapshotPath].written = "full"
    /\ LET snap == fs[SnapshotPath].data
           frames == snap.frameHistory
                       \o loadFrameBuckets(snap.frameBucketRefs, buckets, bucketOk)
           recent == SliceLast(frames, maxFrames)
           ids == extractFacetIdsFromFrames(recent)
       IN /\ snapshot' = snap
          /\ recentFrames' = recent
          /\ facetIds' = ids
          /\ childToParent' = BuildChildToParent(NoParents, snap.facets)
          /\ expanded' = SeqToSet(ids)
          /\ todo' = ids
          /\ current' = NoId
    /\ pc' = "expand"
    /\ UNCHANGED <<fvars, wvars, svars, dvars, hvars, fs, buckets, bucketOk, maxFrames, run, original, compactedSnapshot, outs>>
    /\ UNCHANGED xvars

\* a load that fails after the temp file has been created
LoadFailLeavingTemp ==
    /\ pc = "start"
    /\ pc' = "failed"
    /\ ClearMemory
    /\ fs' = [fs EXCEPT ![TempPath(SnapshotPath)] = PartialFile(EmptySnapshot)]
    /\ UNCHANGED <<fvars, wvars, svars, dvars, hvars, buckets, bucketOk, maxFrames, run, original, outs>>
    /\ UNCHANGED xvars

\* stat or readFile rejects, or JSON.parse throws: the promise rejects
LoadFail ==
    /\ pc = "start"
    /\ pc' = "failed"
    /\ ClearMemory
    /\ UNCHANGED <<fvars, wvars, svars, dvars, hvars, fs, buckets, bucketOk, maxFrames, run, original, outs>>
    /\ UNCHANGED xvars

\* the test of while (childToParent.has(current)), entering the walk of the
\* for-loop's next id when no walk is under way
WalkTest ==
    /\ pc = "expand"
    /\ current # NoId \/ todo # <<>>
    /\ LET cur == IF current = NoId THEN Head(todo) ELSE current
       IN /\ todo' = (IF current = NoId THEN Tail(todo) ELSE todo)
          /\ IF childToParent[cur] # NoId
             THEN current' = cur /\ pc' = "climb"
             ELSE current' = NoId /\ pc' = "expand"
    /\ UNCHANGED <<fvars, wvars, svars, dvars, hvars, fs, buckets, bucketOk, maxFrames, run, original, snapshot,
                   recentFrames, facetIds, childToParent, expanded, compactedSnapshot, outs>>
    /\ UNCHANGED xvars

\* the loop body: expanded.add(parent); current = parent
WalkClimb ==
    /\ pc = "climb"
    /\ expanded' = expanded \cup {childToParent[current]}
    /\ current' = childToParent[current]
    /\ pc' = "expand"
    /\ UNCHANGED <<fvars, wvars, svars, dvars, hvars, fs, buckets, bucketOk, maxFrames, run, original, snapshot,
                   recentFrames, facetIds, childToParent, todo, compactedSnapshot, outs>>
    /\ UNCHANGED xvars

\* steps 5 and 6: the kept facets and the compacted snapshot
BuildCompacted ==
    /\ pc = "expand"
    /\ current = NoId /\ todo = <<>>
    /\ LET kept == FilterFacets(snapshot.facets, expanded)
       IN compactedSnapshot' =
            Snapshot(kept, recentFrames, snapshot.frameBucketRefs,
                     [originalFacets |-> Len(snapshot.facets), keptFacets |-> Len(kept),
                      maxFrames |-> maxFrames, stamped |-> TRUE])
    /\ pc' = "write"
    /\ UNCHANGED <<fvars, wvars, svars, dvars, hvars, fs, buckets, bucketOk, maxFrames, run, original, snapshot, recentFrames,
                   facetIds, childToParent, expanded, todo, current, outs>>
    /\ UNCHANGED xvars

\* writeFile(tempPath, ...) has created or truncated the file and written part of it
WriteTempBegin ==
    /\ pc = "write"
    /\ fs' = [fs EXCEPT ![TempPath(SnapshotPath)] = PartialFile(compactedSnapshot)]
    /\ pc' = "writing"
    /\ UNCHANGED <<fvars, wvars, svars, dvars, hvars, buckets, bucketOk, maxFrames, run, original, snapshot, recentFrames,
                   facetIds, childToParent, expanded, todo, current, compactedSnapshot, outs>>
    /\ UNCHANGED xvars

\* writeFile resolves
WriteTempEnd ==
    /\ pc = "writing"
    /\ fs' = [fs EXCEPT ![TempPath(SnapshotPath)] = FullFile(compactedSnapshot)]
    /\ pc' = "rename"
    /\ UNCHANGED <<fvars, wvars, svars, dvars, hvars, buckets, bucketOk, maxFrames, run, original, snapshot, recentFrames,
                   facetIds, childToParent, expanded, todo, current, compactedSnapshot, outs>>
    /\ UNCHANGED xvars

\* a failed write that is swallowed: the rename goes ahead
WriteFailThenRename ==
    /\ pc = "writing"
    /\ fs' = [p \in Paths |->
                IF p = SnapshotPath THEN fs[TempPath(SnapshotPath)]
                ELSE IF p = TempPath(SnapshotPath) THEN NoFile
                ELSE fs[p]]
    /\ pc' = "failed"
    /\ ClearMemory
    /\ UNCHANGED <<fvars, wvars, svars, dvars, hvars, buckets, bucketOk, maxFrames, run, original, outs>>
    /\ UNCHANGED xvars

\* writeFile rejects partway: nothing catches it, the promise rejects
WriteFail ==
    /\ pc = "writing"
    /\ pc' = "failed"
    /\ ClearMemory
    /\ UNCHANGED <<fvars, wvars, svars, dvars, hvars, fs, buckets, bucketOk, maxFrames, run, original, outs>>
    /\ UNCHANGED xvars

\* stat(tempPath), then rename(tempPath, outputPath)
Rename ==
    /\ pc = "rename"
    /\ fs' = [p \in Paths |->
                IF p = SnapshotPath THEN fs[TempPath(SnapshotPath)]
                ELSE IF p = TempPath(SnapshotPath) THEN NoFile
                ELSE fs[p]]
    /\ outs' = Append(outs, compactedSnapshot)
    /\ pc' = "done"
    /\ UNCHANGED <<fvars, wvars, svars, dvars, hvars, buckets, bucketOk, maxFrames, run, original, snapshot, recentFrames,
                   facetIds, childToParent, expanded, todo, current, compactedSnapshot>>
    /\ UNCHANGED xvars

\* stat(tempPath) or rename rejects
RenameFail ==
    /\ pc = "rename"
    /\ pc' = "failed"
    /\ ClearMemory
    /\ UNCHANGED <<fvars, wvars, svars, dvars, hvars, fs, buckets, bucketOk, maxFrames, run, original, outs>>
    /\ UNCHANGED xvars

\* the process is killed: memory is gone, the files stay as they are
Crash ==
    /\ pc \notin TerminalPc
    /\ pc' = "crashed"
    /\ ClearMemory
    /\ UNCHANGED <<fvars, wvars, svars, dvars, hvars, fs, buckets, bucketOk, maxFrames, run, original, outs>>
    /\ UNCHANGED xvars

\* the compactor is invoked again on the snapshot it produced, with the same maxFrames
Restart ==
    /\ pc = "done"
    /\ run < MaxRuns
    /\ run' = run + 1
    /\ original' = fs[SnapshotPath]
    /\ pc' = "start"
    /\ ClearMemory
    /\ UNCHANGED <<fvars, wvars, svars, dvars, hvars, fs, buckets, bucketOk, maxFrames, outs>>
    /\ UNCHANGED xvars

\* the CLI's try / catch around compactSnapshot: process.exit(1) when the
\* promise rejects, a normal end (code 0) when it resolves; -1 while running
exitCode ==
    IF pc = "failed" THEN 1
    ELSE IF pc = "done" THEN 0
    ELSE -1

NextCompactor ==
    \/ LoadSnapshot
    \/ LoadFail
    \/ WalkTest
    \/ WalkClimb
    \/ BuildCompacted
    \/ WriteTempBegin
    \/ WriteTempEnd
    \/ WriteFail
    \/ Rename
    \/ RenameFail
    \/ Crash
    \/ Restart

\* ------------------------------------------------- findLatestSnapshot
\* file names are strings, spelled as sequences of characters
snapshotPrefix == <<"s", "n", "a", "p", "s", "h", "o", "t", "-">>
jsonSuffix == <<".", "j", "s", "o", "n">>
tmpSuffix == <<".", "t", "m", "p">>
Digits == <<"0", "1", "2", "3", "4", "5", "6", "7", "8", "9">>
IsDigit(c) == \E d \in 1..10 : Digits[d] = c
DigitValue(c) == (CHOOSE d \in 1..10 : Digits[d] = c) - 1

\* f.startsWith(prefix), f.endsWith(suffix)
StartsWithChars(f, prefix) ==
    Len(f) >= Len(prefix) /\ SubSeq(f, 1, Len(prefix)) = prefix
EndsWithChars(f, suffix) ==
    Len(f) >= Len(suffix) /\ SubSeq(f, Len(f) - Len(suffix) + 1, Len(f)) = suffix

\* f.split('-')[1]: what stands between the first and the second '-'; no
\* second field without a first '-'
SecondField(f) ==
    LET dashes == {i \in 1..Len(f) : f[i] = "-"}
    IN IF dashes = {} THEN <<"?">>
       ELSE LET first == CHOOSE i \in dashes : \A j \in dashes : i <= j
                later == {i \in dashes : i > first}
                stop == IF later = {} THEN Len(f) + 1
                        ELSE CHOOSE i \in later : \A j \in later : i <= j
            IN SubSeq(f, first + 1, stop - 1)

NaN == -1
\* parseInt(text): the number its leading digits spell, NaN without any
RECURSIVE ParseDigits(_, _)
ParseDigits(text, acc) ==
    IF text = <<>> \/ ~IsDigit(Head(text)) THEN acc
    ELSE ParseDigits(Tail(text), 10 * acc + DigitValue(Head(text)))

parseInt(text) ==
    IF text = <<>> \/ ~IsDigit(Head(text)) THEN NaN ELSE ParseDigits(text, 0)

\* the fields compared as strings, character by character
RECURSIVE CharsBefore(_, _)
CharsBefore(a, b) ==
    IF b = <<>> THEN FALSE
    ELSE IF a = <<>> THEN TRUE
    ELSE IF Head(a) = Head(b) THEN CharsBefore(Tail(a), Tail(b))
    ELSE IsDigit(Head(a)) /\ (~IsDigit(Head(b)) \/ DigitValue(Head(a)) < DigitValue(Head(b)))

\* the comparator with the fields compared as strings: a goes first
GoesFirstAsText(a, b) == CharsBefore(SecondField(b), SecondField(a))

\* parseInt(f.split('-')[1]) || 0
SequenceOf(f) ==
    LET n == parseInt(SecondField(f)) IN IF n = NaN \/ n = 0 THEN 0 ELSE n

\* the comparator (a, b) => seqB - seqA is negative: a goes first
GoesFirst(a, b) == SequenceOf(b) - SequenceOf(a) < 0

\* Array.prototype.sort, which is stable: an element goes behind those that
\* do not have to follow it
RECURSIVE InsertSorted(_, _)
InsertSorted(sorted, f) ==
    IF sorted = <<>> THEN <<f>>
    ELSE IF GoesFirst(f, Head(sorted)) THEN <<f>> \o sorted
    ELSE <<Head(sorted)>> \o InsertSorted(Tail(sorted), f)

RECURSIVE SortFiles(_, _)
SortFiles(sorted, files) ==
    IF files = <<>> THEN sorted
    ELSE SortFiles(InsertSorted(sorted, Head(files)), Tail(files))

Unreadable == <<"unreadable">>
null == <<>>

IsSnapshotFile(f) == StartsWithChars(f, snapshotPrefix) /\ EndsWithChars(f, jsonSuffix)

\* findLatestSnapshot(snapshotDir), names for paths
findLatestSnapshot(files) ==
    IF files = Unreadable THEN null
    ELSE LET snapshotFiles == SortFiles(<<>>, SelectSeq(files, IsSnapshotFile))
         IN IF Len(snapshotFiles) = 0 THEN null ELSE snapshotFiles[1]

\* snapshot-<sequence>-<timestamp>.json
SnapshotName(sequence, timestamp) ==
    snapshotPrefix \o sequence \o <<"-">> \o timestamp \o jsonSuffix

\* const tempPath = snapshotPath + '.tmp', snapshotPath being what the lookup gave
tempName(files) == findLatestSnapshot(files) \o tmpSuffix

\* readdir once a file of this name was created: the name is listed, at a
\* place of the file system's choosing
Listed(files, name) ==
    IF files = Unreadable \/ name \in SeqToSet(files) THEN {files}
    ELSE {SubSeq(files, 1, k) \o <<name>> \o SubSeq(files, k + 1, Len(files)) :
             k \in 0..Len(files)}

\* readdir once the file of this name was renamed away
Unlisted(files, name) ==
    IF files = Unreadable THEN files ELSE SelectSeq(files, LAMBDA f : f # name)

\* ------------------------------------- writers of one snapshot path at once
\* two compactSnapshot calls on the same snapshotPath, and migrateImages
Compactions == {"c1", "c2"}
Migration == "m"
Writers == Compactions \cup {Migration}

\* what the file holds once a writer's bytes are all in it: that writer's
\* document, unless bytes of another writer are in the file as well
WriteLands(file, data) ==
    IF file.written # "mixed" /\ file.data = data THEN {FullFile(data)}
    ELSE {FullFile(data), MixedFile}

\* compactSnapshot up to step 6, for one of the concurrent calls
CompactLoad(w) ==
    /\ w \in Compactions
    /\ wpc[w] = "start"
    /\ fs[SnapshotPath].written = "full"
    /\ wout' = [wout EXCEPT ![w] =
                  compacted(fs[SnapshotPath].data,
                            loadFrameBuckets(fs[SnapshotPath].data.frameBucketRefs,
                                             buckets, bucketOk),
                            wN[w])]
    /\ wpc' = [wpc EXCEPT ![w] = "write"]
    /\ UNCHANGED <<fs, mvars, fvars, hvars, svars, dvars, wN, wfd, marker>>
    /\ UNCHANGED xvars

\* isMigrationCompleted() is true: migrateImages returns null
MigrateSkip ==
    /\ wpc[Migration] = "start"
    /\ marker
    /\ wpc' = [wpc EXCEPT ![Migration] = "done"]
    /\ UNCHANGED <<fs, mvars, fvars, hvars, svars, dvars, wN, wout, wfd, marker>>
    /\ UNCHANGED xvars

\* findLatestSnapshot(snapshotDir); "No snapshot found, skipping migration":
\* return null
MigrateFind ==
    /\ wpc[Migration] = "start"
    /\ ~marker
    /\ latest' = findLatestSnapshot(dir)
    /\ wpc' = [wpc EXCEPT ![Migration] = IF latest' = null THEN "done" ELSE "load"]
    /\ UNCHANGED <<fs, mvars, fvars, hvars, svars, dir, cli, wN, wout, wfd, marker>>
    /\ UNCHANGED xvars

\* the load followed by markMigrationComplete at once, the save left out
MigrateLoadNoSave ==
    /\ wpc[Migration] = "load"
    /\ fs[SnapshotPath].written = "full"
    /\ wout' = [wout EXCEPT ![Migration] = migrated(fs[SnapshotPath].data)]
    /\ wpc' = [wpc EXCEPT ![Migration] = "mark"]
    /\ UNCHANGED <<fs, mvars, fvars, hvars, svars, dvars, wN, wfd, marker>>
    /\ UNCHANGED xvars

\* readFile, JSON.parse and the for-loop over the facets; the snapshot is
\* saved only if some image was compressed. A snapshot without a facets
\* array is marked as one whose facets hold no image to compress.
MigrateLoad ==
    /\ wpc[Migration] = "load"
    /\ fs[SnapshotPath].written = "full"
    /\ wout' = [wout EXCEPT ![Migration] = migrated(fs[SnapshotPath].data)]
    /\ wpc' = [wpc EXCEPT ![Migration] =
                  IF imagesCompressed(fs[SnapshotPath].data.facets) > 0 THEN "write"
                  ELSE "mark"]
    /\ UNCHANGED <<fs, mvars, fvars, hvars, svars, dvars, wN, wfd, marker>>
    /\ UNCHANGED xvars

\* stat, readFile or JSON.parse fails (a file that is not one complete
\* document does not parse)
LoadFails(w) ==
    /\ wpc[w] = IF w = Migration THEN "load" ELSE "start"
    /\ wpc' = [wpc EXCEPT ![w] = "failed"]
    /\ UNCHANGED <<fs, mvars, fvars, hvars, svars, dvars, wN, wout, wfd, marker>>
    /\ UNCHANGED xvars

\* writeFile(tempPath, ...) / createWriteStream(tempPath): the file at the
\* temp path is created or truncated and held open
WriteOpen(w) ==
    /\ wpc[w] = "write"
    /\ fs' = [fs EXCEPT ![TempPath(SnapshotPath)] = PartialFile(wout[w])]
    /\ wfd' = [wfd EXCEPT ![w] = TempPath(SnapshotPath)]
    /\ wpc' = [wpc EXCEPT ![w] = "writing"]
    /\ dir' \in Listed(dir, tempName(dir))
    /\ UNCHANGED <<mvars, fvars, hvars, svars, latest, cli, wN, wout, marker>>
    /\ UNCHANGED xvars

\* the last byte is written and the file closed: writeFile resolves / the
\* stream emits finish. The bytes are in the file that was opened, whatever
\* its name is by now.
WriteClose(w) ==
    /\ wpc[w] = "writing"
    /\ IF wfd[w] = Unlinked THEN fs' = fs
       ELSE \E file \in WriteLands(fs[wfd[w]], wout[w]) :
              fs' = [fs EXCEPT ![wfd[w]] = file]
    /\ wfd' = [wfd EXCEPT ![w] = NoPath]
    /\ wpc' = [wpc EXCEPT ![w] = "rename"]
    /\ UNCHANGED <<mvars, fvars, hvars, svars, dvars, wN, wout, marker>>
    /\ UNCHANGED xvars

\* the write fails partway
WriteFails(w) ==
    /\ wpc[w] = "writing"
    /\ wfd' = [wfd EXCEPT ![w] = NoPath]
    /\ wpc' = [wpc EXCEPT ![w] = "failed"]
    /\ UNCHANGED <<fs, mvars, fvars, hvars, svars, dvars, wN, wout, marker>>
    /\ UNCHANGED xvars

\* rename(tempPath, snapshotPath): the file named by the temp path gets the
\* snapshot path as its name, and the file that had that name loses it
RenameTemp(w) ==
    /\ wpc[w] = "rename"
    /\ fs[TempPath(SnapshotPath)].exists
    /\ fs' = [p \in Paths |->
                IF p = SnapshotPath THEN fs[TempPath(SnapshotPath)]
                ELSE IF p = TempPath(SnapshotPath) THEN NoFile
                ELSE fs[p]]
    /\ wfd' = [x \in Writers |->
                 IF wfd[x] = TempPath(SnapshotPath) THEN SnapshotPath
                 ELSE IF wfd[x] = SnapshotPath THEN Unlinked
                 ELSE wfd[x]]
    /\ wpc' = [wpc EXCEPT ![w] = IF w = Migration THEN "mark" ELSE "done"]
    /\ dir' = Unlisted(dir, tempName(dir))
    /\ UNCHANGED <<mvars, fvars, hvars, svars, latest, cli, wN, wout, marker>>
    /\ UNCHANGED xvars

\* stat(tempPath) or rename rejects: always when no file has the temp name
RenameFails(w) ==
    /\ wpc[w] = "rename"
    /\ wpc' = [wpc EXCEPT ![w] = "failed"]
    /\ UNCHANGED <<fs, mvars, fvars, hvars, svars, dvars, wN, wout, wfd, marker>>
    /\ UNCHANGED xvars

\* markMigrationComplete: writeFile(markerPath, ...) resolves
MigrateMark ==
    /\ wpc[Migration] = "mark"
    /\ marker' = TRUE
    /\ wpc' = [wpc EXCEPT ![Migration] = "done"]
    /\ UNCHANGED <<fs, mvars, fvars, hvars, svars, dvars, wN, wout, wfd>>
    /\ UNCHANGED xvars

\* writeFile(markerPath, ...) rejects: at open, and no file is made, or at a
\* later write, and the file that open made stays. isMigrationCompleted is
\* stat(markerPath): the file counts whatever it holds.
MarkFails ==
    /\ wpc[Migration] = "mark"
    /\ \E created \in BOOLEAN : marker' = (marker \/ created)
    /\ wpc' = [wpc EXCEPT ![Migration] = "failed"]
    /\ UNCHANGED <<fs, mvars, fvars, hvars, svars, dvars, wN, wout, wfd>>
    /\ UNCHANGED xvars

NextWriters ==
    \/ \E w \in Compactions : CompactLoad(w)
    \/ MigrateSkip
    \/ MigrateFind
    \/ MigrateLoad
    \/ \E w \in Writers : LoadFails(w)
    \/ \E w \in Writers : WriteOpen(w)
    \/ \E w \in Writers : WriteClose(w)
    \/ \E w \in Writers : WriteFails(w)
    \/ \E w \in Writers : RenameTemp(w)
    \/ \E w \in Writers : RenameFails(w)
    \/ MigrateMark
    \/ MarkFails

\* ----------------------------------------------------------------- inputs
\* the strictly increasing sequence of the numbers of S
Sorted(S) ==
    CHOOSE s \in [1..Cardinality(S) -> S] :
        \A i, j \in 1..Cardinality(S) : i < j => s[i] < s[j]

IncSeqs(S) == {Sorted(T) : T \in SUBSET S}

SeqsUpTo(S, n) == UNION {[1..k -> S] : k \in 0..n}

PlainFacets(k) == [i \in 1..k |-> Facet(i, Speech, NoId, <<>>)]

\* each facet after the first is owned by the one before it
ChainFacets(k) == [i \in 1..k |-> Facet(i, Speech, i - 1, <<>>)]

FacetLists == {PlainFacets(MaxIds), ChainFacets(MaxIds)}

\* what one frame can carry: at most MaxItems deltas, veilOps and events in all
AllDeltas == {Delta(t, i) : t \in DeltaTypes, i \in Ids}
AllEvents == {Event(sh, i) : sh \in EventShapes, i \in Ids}
Contents ==
    {c \in [deltas : SeqsUpTo(AllDeltas, MaxItems), veilOps : SeqsUpTo(AllDeltas, MaxItems),
            events : SeqsUpTo(AllEvents, MaxItems)] :
        Len(c.deltas) + Len(c.veilOps) + Len(c.events) <= MaxItems}

FrameOf(sequence, c) == Frame(sequence, NoStream, c.deltas, c.veilOps, c.events)

\* the frame with this sequence number that adds one facet
AddFrame(sequence) ==
    Frame(sequence, NoStream, <<Delta("addFacet", ((sequence - 1) % MaxIds) + 1)>>, <<>>, <<>>)

AddFrames(seqs) == [i \in 1..Len(seqs) |-> AddFrame(seqs[i])]

\* no second writer of the snapshot is running
WritersOff ==
    /\ wpc = [w \in Writers |-> "off"]
    /\ wN = [w \in Compactions |-> 0]
    /\ wout = [w \in Writers |-> EmptySnapshot]
    /\ wfd = [w \in Writers |-> NoPath]
    /\ marker = FALSE

\* no transform is part of a compactor process
TransformOff ==
    /\ frameHistory = <<>>
    /\ currentFrame = NoFrame
    /\ focusedStreamId = NoStream
    /\ filteredFrames = <<>>
    /\ allFrames = <<>>
    /\ tpc = "off"

\* no directory is being searched
FindOff ==
    /\ dir = <<>>
    /\ latest = <<>>
    /\ cli = "off"

\* no snapshot is being streamed out
StreamOff ==
    /\ document = <<>>
    /\ handed = <<>>
    /\ spc = "off"
    /\ needDrain = FALSE
    /\ sink = "off"
    /\ promise = "off"

\* no agent cycle runs
AgentOff ==
    /\ maxToolRounds = 0
    /\ apc = "off"
    /\ response = <<>>
    /\ toolRounds = 0
    /\ toolResults = <<>>
    /\ request = <<>>
    /\ generated = 0
    /\ resultsSent = 0
    /\ obtained = <<>>

\* no generate call of a provider is in progress
ProviderOff ==
    /\ providerKind = "none"
    /\ maxRetries = 0
    /\ retryDelay = 0
    /\ attempt = 0
    /\ apiCalls = 0
    /\ lastError = <<>>
    /\ gpc = "off"
    /\ delays = <<>>
    /\ raised = <<>>

\* no request of the Bedrock provider is being built
BedrockOff ==
    /\ sourceCopy = "none"
    /\ llmMessages = <<>>
    /\ bpc = "off"
    /\ bedrockMessages = <<>>

\* no reconnection has been asked for
ReconnectOff ==
    /\ chains = <<>>
    /\ pendingMessages = <<>>
    /\ reEmitted = <<>>

\* no veil:operation event is at the speaker prefix receptor
ReceptorOff ==
    /\ opType = "none"
    /\ opFacet = <<>>
    /\ contents = <<>>
    /\ returnedDeltas = <<>>

OthersOff == AgentOff /\ ProviderOff /\ BedrockOff /\ ReconnectOff /\ ReceptorOff

\* no Space is part of a compactor or migration process, and the transform's
\* frame selection taken alone has no frame in progress
HostOff ==
    /\ maxConversationFrames = 0
    /\ stateFacets = <<>>
    /\ phase = "off"
    /\ mounted = FALSE
    /\ windows = <<>>
    /\ returned = <<>>
    /\ processingActivations = {}
    /\ cycles = <<>>
    /\ emitted = <<>>

InitCompactor(snap, bucketFiles, ok, n) ==
    /\ fs = [p \in Paths |-> IF p = SnapshotPath THEN FullFile(snap) ELSE NoFile]
    /\ buckets = bucketFiles
    /\ bucketOk = ok
    /\ maxFrames = n
    /\ pc = "start"
    /\ run = 1
    /\ original = FullFile(snap)
    /\ snapshot = EmptySnapshot
    /\ recentFrames = <<>>
    /\ facetIds = <<>>
    /\ childToParent = NoParents
    /\ expanded = {}
    /\ todo = <<>>
    /\ current = NoId
    /\ compactedSnapshot = EmptySnapshot
    /\ outs = <<>>
    /\ OthersOff
    /\ TransformOff
    /\ WritersOff
    /\ HostOff
    /\ StreamOff
    /\ FindOff

\* snapshots whose frames carry every kind of delta and event: inline history only
InitRefs ==
    \E t \in 1..(MaxSeq - 1), n \in 0..MaxN :
      \E cs \in [1..t -> Contents], facets \in FacetLists :
        InitCompactor(Snapshot(facets, [i \in 1..t |-> FrameOf(i, cs[i])],
                               <<>>, NoCompaction),
                      <<>>, {}, n)

\* snapshots whose frames lie in the inline history and in bucket files
InitLayout ==
    \E inline \in IncSeqs(1..MaxSeq), n \in 0..MaxN :
      \E bs \in SeqsUpTo(IncSeqs(1..MaxSeq), MaxBuckets) :
        \E ok \in SUBSET (1..Len(bs)), facets \in FacetLists :
          InitCompactor(Snapshot(facets, AddFrames(inline),
                                 [i \in 1..Len(bs) |-> i], NoCompaction),
                        [i \in 1..Len(bs) |-> AddFrames(bs[i])], ok, n)

\* ownership graphs: every parentId, at most one children declaration
ChildLists == {<<>>} \cup {<<c>> : c \in Ids}

InitGraph ==
    \E k \in 1..MaxIds, t \in 1..(MaxSeq - 1) :
      \E parent \in [1..k -> Ids \cup {NoId}], owner \in 1..k, ch \in ChildLists,
         refs \in [1..t -> Ids] :
        InitCompactor(
          Snapshot([i \in 1..k |->
                      Facet(i, Speech, parent[i], IF i = owner THEN ch ELSE <<>>)],
                   [i \in 1..t |-> Frame(i, NoStream, <<Delta("addFacet", refs[i])>>, <<>>, <<>>)],
                   <<>>, NoCompaction),
          <<>>, {}, t)

\* typed facets in small ownership graphs: the first two facets may carry a
\* parentId, one facet may declare a child, one facet may be of a special type
SpecialTypes == {<<"config">>, <<"agent-config">>, <<"element-", "x">>, <<"component-", "x">>}

InitKeep ==
    \E parent \in [1..2 -> Ids \cup {NoId}], owner \in Ids, ch \in ChildLists,
       special \in Ids \cup {NoId}, type \in SpecialTypes, ref \in Ids \cup {NoId} :
      InitCompactor(
        Snapshot([i \in Ids |->
                    Facet(i, IF i = special THEN type ELSE Speech,
                          IF i <= 2 THEN parent[i] ELSE NoId,
                          IF i = owner THEN ch ELSE <<>>)],
                 <<Frame(1, NoStream,
                         IF ref = NoId THEN <<>> ELSE <<Delta("addFacet", ref)>>, <<>>, <<>>)>>,
                 <<>>, NoCompaction),
        <<>>, {}, 1)

\* one facet of any type near the always-keep rules, histories of up to
\* MaxSeq - 1 frames, every retention count
NearTypes == alwaysKeepTypes \cup
    {<<"element-", "x">>, <<"component-", "x">>, <<"element">>, <<"config", "uration">>, Speech}

InitTypes ==
    \E special \in Ids, type \in NearTypes, chained \in BOOLEAN,
       t \in 0..(MaxSeq - 1), n \in 0..MaxN :
      \E refs \in [1..t -> Ids] :
        InitCompactor(
          Snapshot([i \in Ids |->
                      Facet(i, IF i = special THEN type ELSE Speech,
                            IF chained THEN i - 1 ELSE NoId, <<>>)],
                   [i \in 1..t |-> Frame(i, NoStream, <<Delta("addFacet", refs[i])>>, <<>>, <<>>)],
                   <<>>, NoCompaction),
          <<>>, {}, n)

\* bucket files of zero, one or two frames, referenced in either order, any of
\* them unreadable; one inline frame or none
BucketFrames(i) == {<<>>, AddFrames(<<2 * i - 1>>), AddFrames(<<2 * i - 1, 2 * i>>)}

InitBuckets ==
    \E k \in 0..MaxBuckets, reversed \in BOOLEAN, inline \in BOOLEAN, n \in 0..MaxN :
      \E files \in [1..k -> UNION {BucketFrames(i) : i \in 1..k}], ok \in SUBSET (1..k) :
        /\ \A i \in 1..k : files[i] \in BucketFrames(i)
        /\ InitCompactor(
             Snapshot(ChainFacets(MaxIds),
                      IF inline THEN AddFrames(<<2 * k + 1>>) ELSE <<>>,
                      [i \in 1..k |-> IF reversed THEN k + 1 - i ELSE i], NoCompaction),
             files, ok, n)

\* two compactions and the startup migration at work on one snapshot whose
\* first facet carries an image; frame i of the history adds facet i
InitWriters ==
    \E n \in [Compactions -> 0..MaxN], image \in {"raw", "small"}, done \in BOOLEAN :
      LET snap == Snapshot([i \in Ids |->
                              IF i = 1 THEN ImageFacet(i, NoId, image)
                              ELSE Facet(i, Speech, NoId, <<>>)],
                           AddFrames([i \in 1..MaxSeq |-> i]), <<>>, NoCompaction)
      IN /\ fs = [p \in Paths |-> IF p = SnapshotPath THEN FullFile(snap) ELSE NoFile]
         /\ buckets = <<>>
         /\ bucketOk = {}
         /\ maxFrames = 0
         /\ pc = "off"
         /\ run = 1
         /\ original = FullFile(snap)
         /\ snapshot = EmptySnapshot
         /\ recentFrames = <<>>
         /\ facetIds = <<>>
         /\ childToParent = NoParents
         /\ expanded = {}
         /\ todo = <<>>
         /\ current = NoId
         /\ compactedSnapshot = EmptySnapshot
         /\ outs = <<>>
         /\ OthersOff
         /\ TransformOff
         /\ HostOff
         /\ StreamOff
         /\ dir = <<SnapshotName(<<"9">>, <<"1">>)>>
         /\ latest = null
         /\ cli = "off"
         /\ wpc = [w \in Writers |-> "start"]
         /\ wN = n
         /\ wout = [w \in Writers |-> EmptySnapshot]
         /\ wfd = [w \in Writers |-> NoPath]
         /\ marker = done

\* ------------------------------------------------- the transform's pass
\* the frame selection of process() for one activation: filter, then the current frame
SelectFrames ==
    /\ tpc = "ready"
    /\ filteredFrames' = FilterFrames(frameHistory, focusedStreamId)
    /\ allFrames' = AddCurrentFrame(FilterFrames(frameHistory, focusedStreamId),
                                    currentFrame, focusedStreamId)
    /\ tpc' = "rendered"
    /\ UNCHANGED <<cvars, wvars, svars, dvars, hvars, frameHistory, currentFrame, focusedStreamId>>
    /\ UNCHANGED xvars

\* the next activation's pass starts from the same live state
NextActivation ==
    /\ tpc = "rendered"
    /\ \E s \in {NoStream, "p1", "p2"} : focusedStreamId' = s
    /\ filteredFrames' = <<>>
    /\ allFrames' = <<>>
    /\ tpc' = "ready"
    /\ UNCHANGED <<cvars, wvars, svars, dvars, hvars, frameHistory, currentFrame>>
    /\ UNCHANGED xvars

NextTransform ==
    \/ SelectFrames
    \/ NextActivation

\* what a live frame's deltas can be: nothing, a facet of one stream, a rewrite
\* on a stream, facets of two streams
LiveDeltas ==
    {<<>>, <<DeltaOn("addFacet", 1, "p1")>>, <<DeltaOn("addFacet", 1, "p2")>>,
     <<DeltaOn("rewriteFacet", 1, "p1")>>,
     <<DeltaOn("addFacet", 1, "p2"), DeltaOn("addFacet", 2, "p1")>>}

LiveSeqs == (SETUP_FRAME_LIMIT - 1)..(SETUP_FRAME_LIMIT + MaxLate)

\* no compactor is part of the host process
CompactorOff ==
    /\ fs = [p \in Paths |-> NoFile]
    /\ buckets = <<>>
    /\ bucketOk = {}
    /\ maxFrames = 0
    /\ pc = "off"
    /\ run = 1
    /\ original = NoFile
    /\ snapshot = EmptySnapshot
    /\ recentFrames = <<>>
    /\ facetIds = <<>>
    /\ childToParent = NoParents
    /\ expanded = {}
    /\ todo = <<>>
    /\ current = NoId
    /\ compactedSnapshot = EmptySnapshot
    /\ outs = <<>>

\* a live history in sequence order, and the frame in progress: none, the
\* history's last frame, or the frame after it
InitTransform ==
    \E seqs \in {q \in IncSeqs(LiveSeqs) : Len(q) <= MaxLate} :
      \E as \in [1..Len(seqs) -> Streams \cup {NoStream}], ds \in [1..Len(seqs) -> LiveDeltas],
         cur \in {"none", "last", "next"}, curStream \in Streams \cup {NoStream} :
        LET history == [i \in 1..Len(seqs) |-> Frame(seqs[i], as[i], ds[i], <<>>, <<>>)]
            last == IF seqs = <<>> THEN 0 ELSE seqs[Len(seqs)]
        IN /\ cur = "last" => seqs # <<>> /\ curStream = as[Len(seqs)]
           /\ cur = "none" => curStream = NoStream
           /\ frameHistory = history
           /\ currentFrame = (IF cur = "none" THEN NoFrame
                              ELSE IF cur = "last" THEN history[Len(seqs)]
                              ELSE Frame(last + 1, curStream, <<>>, <<>>, <<>>))
           /\ focusedStreamId = "p1"
           /\ filteredFrames = <<>>
           /\ allFrames = <<>>
           /\ tpc = "ready"
           /\ OthersOff
           /\ CompactorOff
           /\ WritersOff
           /\ HostOff
           /\ StreamOff
           /\ FindOff

\* histories of SETUP_FRAME_LIMIT setup frames without a stream followed by
\* as many frames of stream p1, each with a p1 facet; one of the later frames
\* may carry a facet of some stream in addition
ScenarioFrames(extra, extraStream, early) ==
    [i \in 1..(2 * SETUP_FRAME_LIMIT) |->
        IF i <= SETUP_FRAME_LIMIT THEN Frame(i, NoStream, early, <<>>, <<>>)
        ELSE Frame(i, "p1",
                   <<DeltaOn("addFacet", 2, "p1")>>
                     \o (IF i = extra THEN <<DeltaOn("addFacet", 1, extraStream)>> ELSE <<>>),
                   <<>>, <<>>)]

InitScenario ==
    \E extra \in {0} \cup ((SETUP_FRAME_LIMIT + 1)..(2 * SETUP_FRAME_LIMIT)),
       extraStream \in Streams, early \in LiveDeltas,
       curStream \in Streams \cup {NoStream}, cur \in BOOLEAN :
      /\ ~cur => curStream = NoStream
      /\ frameHistory = ScenarioFrames(extra, extraStream, early)
      /\ currentFrame = (IF cur THEN Frame(2 * SETUP_FRAME_LIMIT + 1, curStream, <<>>, <<>>, <<>>)
                         ELSE NoFrame)
      /\ focusedStreamId = "p2"
      /\ filteredFrames = <<>>
      /\ allFrames = <<>>
      /\ tpc = "ready"
      /\ OthersOff
      /\ CompactorOff
      /\ WritersOff
      /\ HostOff
      /\ StreamOff
      /\ FindOff

\* a live history as restored from a snapshot whose stored frames are in any
\* order, with repeats, and a frame in progress of any sequence number
InitAnyOrder ==
    \E seqs \in SeqsUpTo(LiveSeqs, MaxLate), cur \in LiveSeqs \cup {0} :
      \E as \in [1..Len(seqs) -> Streams \cup {NoStream}] :
        /\ frameHistory = [i \in 1..Len(seqs) |-> Frame(seqs[i], as[i], <<>>, <<>>, <<>>)]
        /\ currentFrame = (IF cur = 0 THEN NoFrame ELSE Frame(cur, NoStream, <<>>, <<>>, <<>>))
        /\ focusedStreamId = "p1"
        /\ filteredFrames = <<>>
        /\ allFrames = <<>>
        /\ tpc = "ready"
        /\ OthersOff
        /\ CompactorOff
        /\ WritersOff
        /\ HostOff
        /\ StreamOff
        /\ FindOff

\* ------------------------------------------------- the host's frames
\* ToolAgentEffector.agentName of the agent followed here
agentName == "bot"
NoAgent == "none"
Agents == {NoAgent, agentName, "other"}

ActivationId(k) == <<"activation", k>>
\* `context-${id}-${Date.now()}`, the frame's number standing for the time
ContextId(activationId, now) == <<"context", activationId, now>>
SpeechId(activationId) == <<"speech", activationId>>

\* a facet of the live state: streamId is facet.streamId, streamRef is
\* state.streamRef?.streamId, targetAgent and activationId are fields of state
HostFacet(id, type, streamId, streamRef, targetAgent, activationId) ==
    [id |-> id, type |-> type, streamId |-> streamId, streamRef |-> streamRef,
     targetAgent |-> targetAgent, activationId |-> activationId]

AddFacet(facet) ==
    [type |-> "addFacet", id |-> facet.id, streamId |-> facet.streamId, facet |-> facet]

DeleteFacet(facetId) ==
    [type |-> "deleteFacet", id |-> facetId, streamId |-> NoStream, facet |-> NoFrame]

\* a rendered-context facet with state.activationId === id is in the map
contextExists(map, id) ==
    \E i \in 1..Len(map) : map[i].type = "rendered-context" /\ map[i].activationId = id

\* the activations the for-loop of process() does not skip, in Map order
NeedContext(map) ==
    SelectSeq(map, LAMBDA f : f.type = "agent-activation" /\ ~contextExists(map, f.id))

\* the deltas of a frame applied to the facet map (activations and contexts
\* only: no other facet is read by the transform or the effector). The map is
\* a Map: a facet added under an id that is there takes the place of the old one
RECURSIVE ApplyDeltas(_, _)
ApplyDeltas(map, deltas) ==
    IF deltas = <<>> THEN map
    ELSE LET d == Head(deltas)
             next == IF d.type = "addFacet"
                     THEN (IF d.facet.type \notin {"agent-activation", "rendered-context"}
                           THEN map
                           ELSE IF \E i \in 1..Len(map) : map[i].id = d.id
                           THEN [i \in 1..Len(map) |->
                                   IF map[i].id = d.id THEN d.facet ELSE map[i]]
                           ELSE Append(map, d.facet))
                     ELSE SelectSeq(map, LAMBDA f : f.id # d.id)
         IN ApplyDeltas(next, Tail(deltas))

\* execute() without its test of processingActivations
RECURSIVE StartedAgain(_, _, _)
StartedAgain(deltas, map, processing) ==
    IF deltas = <<>> THEN <<>>
    ELSE LET d == Head(deltas)
             starts == /\ d.type = "addFacet"
                       /\ d.facet.type = "agent-activation"
                       /\ d.facet.targetAgent \in {NoAgent, agentName}
                       /\ contextExists(map, d.facet.id)
         IN (IF starts THEN <<d.facet>> ELSE <<>>) \o StartedAgain(Tail(deltas), map, processing)

\* the activations of the frame's deltas for which execute() starts a cycle
RECURSIVE Started(_, _, _)
Started(deltas, map, processing) ==
    IF deltas = <<>> THEN <<>>
    ELSE LET d == Head(deltas)
             starts == /\ d.type = "addFacet"
                       /\ d.facet.type = "agent-activation"
                       /\ d.facet.id \notin processing
                       /\ d.facet.targetAgent \in {NoAgent, agentName}
                       /\ contextExists(map, d.facet.id)
         IN IF starts
            THEN <<d.facet>> \o Started(Tail(deltas), map, processing \cup {d.facet.id})
            ELSE Started(Tail(deltas), map, processing)

NextSequence == IF frameHistory = <<>> THEN 1 ELSE frameHistory[Len(frameHistory)].sequence + 1

\* a history restored at startup, trimmed to its last frames
RestoredHistory ==
    <<Frame(SETUP_FRAME_LIMIT - 1, "p1", <<>>, <<>>, <<>>),
      Frame(SETUP_FRAME_LIMIT, "p1", <<>>, <<>>, <<>>)>>

\* the frames processed since the host started
Processed ==
    IF frameHistory # <<>> /\ frameHistory[1].sequence > 1
    THEN Len(frameHistory) - Len(RestoredHistory)
    ELSE Len(frameHistory)

\* the activation ids no facet carries yet
FreshIds == {k \in 1..MaxActs : \A i \in 1..Len(stateFacets) : stateFacets[i].id # ActivationId(k)}

\* a message event opens a frame on its stream; the receptor adds the
\* message's facet and an activation for each agent it calls
MessageFrame ==
    /\ phase = "idle"
    /\ Processed < MaxLive
    /\ \E streamId \in Streams, n \in 0..Cardinality(FreshIds), isMounted \in BOOLEAN :
         \E targets \in [1..n -> Agents] :
           LET first == IF n = 0 THEN 0 ELSE CHOOSE k \in FreshIds : \A m \in FreshIds : k <= m
               activations == [i \in 1..n |->
                   AddFacet(HostFacet(ActivationId(first + i - 1), "agent-activation",
                                      NoStream, streamId, targets[i], <<>>))]
               message == AddFacet(HostFacet(<<"message", NextSequence>>, "speech",
                                             streamId, NoStream, NoAgent, <<>>))
           IN /\ currentFrame' = Frame(NextSequence, streamId, <<message>> \o activations,
                                       <<>>, <<>>)
              /\ stateFacets' = ApplyDeltas(stateFacets, activations)
              /\ mounted' = isMounted
    /\ phase' = "transforms"
    /\ windows' = <<>>
    /\ UNCHANGED <<cvars, wvars, svars, dvars, frameHistory, focusedStreamId, filteredFrames, allFrames, tpc,
                   maxConversationFrames, returned, processingActivations, cycles, emitted>>
    /\ UNCHANGED xvars

\* the veil:operation events emitted since the last frame open a frame of
\* their own, which has no stream
OperationFrame ==
    /\ phase = "idle"
    /\ Processed < MaxLive
    /\ emitted # <<>>
    /\ \E isMounted \in BOOLEAN : mounted' = isMounted
    /\ currentFrame' = Frame(NextSequence, NoStream, emitted, <<>>, <<>>)
    /\ stateFacets' = ApplyDeltas(stateFacets, emitted)
    /\ emitted' = <<>>
    /\ phase' = "transforms"
    /\ windows' = <<>>
    /\ UNCHANGED <<cvars, wvars, svars, dvars, frameHistory, focusedStreamId, filteredFrames, allFrames, tpc,
                   maxConversationFrames, returned, processingActivations, cycles>>
    /\ UNCHANGED xvars

\* what process() computes: the frame selection of each activation without a
\* context, and the rendered-context delta it pushes for it
Selections ==
    LET pending == IF mounted THEN NeedContext(stateFacets) ELSE <<>>
    IN [i \in 1..Len(pending) |->
           [activationId |-> pending[i].id,
            focusedStreamId |-> pending[i].streamRef,
            filteredFrames |-> FilterFrames(frameHistory, pending[i].streamRef),
            allFrames |-> AddCurrentFrame(FilterFrames(frameHistory, pending[i].streamRef),
                                          currentFrame, pending[i].streamRef),
            delta |-> AddFacet(HostFacet(ContextId(pending[i].id, currentFrame.sequence),
                                         "rendered-context", NoStream, NoStream, NoAgent,
                                         pending[i].id))]]

\* process() with the current frame pushed onto the live history itself
ProcessInPlace ==
    /\ phase = "transforms"
    /\ windows' = Selections
    /\ returned' = [i \in 1..Len(Selections) |-> Selections[i].delta]
    /\ IF Selections = <<>>
       THEN UNCHANGED <<frameHistory, focusedStreamId, filteredFrames, allFrames>>
       ELSE /\ frameHistory' = Selections[Len(Selections)].allFrames
            /\ focusedStreamId' = Selections[Len(Selections)].focusedStreamId
            /\ filteredFrames' = Selections[Len(Selections)].filteredFrames
            /\ allFrames' = Selections[Len(Selections)].allFrames
    /\ phase' = "apply"
    /\ UNCHANGED <<cvars, wvars, svars, dvars, currentFrame, tpc, maxConversationFrames, stateFacets, mounted,
                   processingActivations, cycles, emitted>>
    /\ UNCHANGED xvars

\* FocusedContextTransform.process(state): one frame selection and one
\* rendered-context delta for each activation without a context; the deltas
\* are returned
Process ==
    /\ phase = "transforms"
    /\ windows' = Selections
    /\ returned' = [i \in 1..Len(Selections) |-> Selections[i].delta]
    /\ IF Selections = <<>>
       THEN UNCHANGED <<focusedStreamId, filteredFrames, allFrames>>
       ELSE /\ focusedStreamId' = Selections[Len(Selections)].focusedStreamId
            /\ filteredFrames' = Selections[Len(Selections)].filteredFrames
            /\ allFrames' = Selections[Len(Selections)].allFrames
    /\ phase' = "apply"
    /\ UNCHANGED <<cvars, wvars, svars, dvars, frameHistory, currentFrame, tpc, maxConversationFrames,
                   stateFacets, mounted, processingActivations, cycles, emitted>>
    /\ UNCHANGED xvars

\* the Space applies the deltas the transform returned to the frame in progress
ApplyReturned ==
    /\ phase = "apply"
    /\ currentFrame' = [currentFrame EXCEPT !.deltas = @ \o returned]
    /\ stateFacets' = ApplyDeltas(stateFacets, returned)
    /\ returned' = <<>>
    /\ phase' = "effectors"
    /\ UNCHANGED <<cvars, wvars, svars, dvars, frameHistory, focusedStreamId, filteredFrames, allFrames, tpc,
                   maxConversationFrames, mounted, windows, processingActivations, cycles,
                   emitted>>
    /\ UNCHANGED xvars

\* ToolAgentEffector.execute({ state, frame }): a cycle starts in the
\* background for each activation of the frame that passes the tests
Execute ==
    /\ phase = "effectors"
    /\ LET started == Started(currentFrame.deltas, stateFacets, processingActivations)
       IN /\ processingActivations' =
                processingActivations \cup {started[i].id : i \in 1..Len(started)}
          /\ cycles' = cycles \o [i \in 1..Len(started) |->
                                    [activationId |-> started[i].id,
                                     streamId |-> started[i].streamRef,
                                     running |-> TRUE]]
    /\ phase' = "closing"
    /\ UNCHANGED <<cvars, wvars, svars, dvars, fvars, maxConversationFrames, stateFacets, mounted, windows,
                   returned, emitted>>
    /\ UNCHANGED xvars

\* the Space closes the frame: it joins the history
CloseFrame ==
    /\ phase = "closing"
    /\ frameHistory' = Append(frameHistory, currentFrame)
    /\ currentFrame' = NoFrame
    /\ phase' = "idle"
    /\ UNCHANGED <<cvars, wvars, svars, dvars, focusedStreamId, filteredFrames, allFrames, tpc, maxConversationFrames, stateFacets, mounted,
                   windows, returned, processingActivations, cycles, emitted>>
    /\ UNCHANGED xvars

\* runAgentCycleBackground's promise settles: the operation of the result
\* (one speech facet) and the deleteFacet are emitted; or runCycle threw,
\* nothing is emitted and the error is reported to Signal; or that report
\* threw as well. Finally the id leaves the set
CycleEnds(c) ==
    /\ cycles[c].running
    /\ \E outcome \in {"speech", "error", "unreported"} :
         LET id == cycles[c].activationId
             speech == AddFacet(HostFacet(SpeechId(id), "speech", cycles[c].streamId,
                                          NoStream, NoAgent, <<>>))
             found == SelectSeq(stateFacets,
                          LAMBDA f : f.type = "rendered-context" /\ f.activationId = id)
         IN /\ emitted' = emitted
                 \o (IF outcome = "speech" THEN <<speech>> ELSE <<>>)
                 \o (IF outcome = "speech" /\ found # <<>>
                     THEN <<DeleteFacet(found[1].id)>> ELSE <<>>)
            /\ cycles' = [cycles EXCEPT ![c].running = FALSE]
    /\ processingActivations' = processingActivations \ {cycles[c].activationId}
    /\ UNCHANGED <<cvars, wvars, svars, dvars, fvars, maxConversationFrames, stateFacets, phase, mounted,
                   windows, returned>>
    /\ UNCHANGED xvars

NextHost ==
    \/ MessageFrame
    \/ OperationFrame
    \/ Process
    \/ ApplyReturned
    \/ Execute
    \/ CloseFrame
    \/ \E c \in 1..(2 * MaxActs) : c <= Len(cycles) /\ CycleEnds(c)

\* a message frame with one activation, of a new id or of one the state holds
\* already (the message is processed again and the facet is set anew)
Sighting ==
    /\ phase = "idle"
    /\ Processed < MaxLive
    /\ \E k \in 1..MaxActs, streamId \in Streams, target \in Agents :
         LET activation == AddFacet(HostFacet(ActivationId(k), "agent-activation",
                                              NoStream, streamId, target, <<>>))
         IN /\ currentFrame' = Frame(NextSequence, streamId, <<activation>>, <<>>, <<>>)
            /\ stateFacets' = ApplyDeltas(stateFacets, <<activation>>)
    /\ mounted' = TRUE
    /\ phase' = "transforms"
    /\ windows' = <<>>
    /\ UNCHANGED <<cvars, wvars, svars, dvars, frameHistory, focusedStreamId, filteredFrames, allFrames, tpc,
                   maxConversationFrames, returned, processingActivations, cycles, emitted>>
    /\ UNCHANGED xvars

\* the effector with the frames the Space hands it, replayed messages among them
NextEffector ==
    \/ Sighting
    \/ OperationFrame
    \/ Process
    \/ ApplyReturned
    \/ Execute
    \/ CloseFrame
    \/ \E c \in 1..(MaxLive + 1) : c <= Len(cycles) /\ CycleEnds(c)

\* the host after initialize(): no activation yet; the history is new, or
\* restored and trimmed to its last two frames, more than max_conversation_frames
InitHost ==
    /\ maxConversationFrames = 1
    /\ frameHistory \in {<<>>, RestoredHistory}
    /\ currentFrame = NoFrame
    /\ focusedStreamId = NoStream
    /\ filteredFrames = <<>>
    /\ allFrames = <<>>
    /\ tpc = "off"
    /\ stateFacets = <<>>
    /\ phase = "idle"
    /\ mounted = TRUE
    /\ windows = <<>>
    /\ returned = <<>>
    /\ processingActivations = {}
    /\ cycles = <<>>
    /\ emitted = <<>>
    /\ OthersOff
    /\ CompactorOff
    /\ WritersOff
    /\ StreamOff
    /\ FindOff

\* ------------------------------------------------- streamWriteSnapshot
\* JSON values: null, strings, arrays, objects as member lists in Object.keys order
JNull == [t |-> "null", v |-> <<>>]
JStr(text) == [t |-> "str", v |-> <<text>>]
JArr(items) == [t |-> "arr", v |-> items]
JObj(members) == [t |-> "obj", v |-> members]
Member(key, value) == [key |-> key, value |-> value]

\* JSON text as a token sequence
Punct(c) == <<"punct", c>>
StrTok(text) == <<"str", text>>
NullTok == <<"lit", "null">>

\* JSON.stringify(value)
RECURSIVE Stringify(_), StringifyItems(_), StringifyMembers(_)
Stringify(x) ==
    CASE x.t = "null" -> <<NullTok>>
      [] x.t = "str" -> <<StrTok(x.v[1])>>
      [] x.t = "arr" -> <<Punct("[")>> \o StringifyItems(x.v) \o <<Punct("]")>>
      [] x.t = "obj" -> <<Punct("{")>> \o StringifyMembers(x.v) \o <<Punct("}")>>

StringifyItems(items) ==
    IF items = <<>> THEN <<>>
    ELSE Stringify(Head(items))
         \o (IF Tail(items) = <<>> THEN <<>> ELSE <<Punct(",")>> \o StringifyItems(Tail(items)))

StringifyMembers(members) ==
    IF members = <<>> THEN <<>>
    ELSE <<StrTok(Head(members).key), Punct(":")>> \o Stringify(Head(members).value)
         \o (IF Tail(members) = <<>> THEN <<>>
             ELSE <<Punct(",")>> \o StringifyMembers(Tail(members)))

\* JSON.parse(text): the value and the tokens left over, or a failure
NoParse == [ok |-> FALSE, value |-> JNull, rest |-> <<>>]

RECURSIVE ParseValue(_), ParseItems(_, _), ParseMembers(_, _)
ParseValue(toks) ==
    IF toks = <<>> THEN NoParse
    ELSE LET h == Head(toks)
         IN IF h = NullTok THEN [ok |-> TRUE, value |-> JNull, rest |-> Tail(toks)]
            ELSE IF h[1] = "str" THEN [ok |-> TRUE, value |-> JStr(h[2]), rest |-> Tail(toks)]
            ELSE IF h = Punct("[")
                 THEN (IF Len(toks) >= 2 /\ toks[2] = Punct("]")
                       THEN [ok |-> TRUE, value |-> JArr(<<>>), rest |-> SubSeq(toks, 3, Len(toks))]
                       ELSE ParseItems(Tail(toks), <<>>))
            ELSE IF h = Punct("{")
                 THEN (IF Len(toks) >= 2 /\ toks[2] = Punct("}")
                       THEN [ok |-> TRUE, value |-> JObj(<<>>), rest |-> SubSeq(toks, 3, Len(toks))]
                       ELSE ParseMembers(Tail(toks), <<>>))
            ELSE NoParse

ParseItems(toks, acc) ==
    LET r == ParseValue(toks)
    IN IF ~r.ok \/ r.rest = <<>> THEN NoParse
       ELSE IF Head(r.rest) = Punct(",") THEN ParseItems(Tail(r.rest), Append(acc, r.value))
       ELSE IF Head(r.rest) = Punct("]")
            THEN [ok |-> TRUE, value |-> JArr(Append(acc, r.value)), rest |-> Tail(r.rest)]
       ELSE NoParse

ParseMembers(toks, acc) ==
    IF Len(toks) < 2 \/ toks[1][1] # "str" \/ toks[2] # Punct(":") THEN NoParse
    ELSE LET r == ParseValue(SubSeq(toks, 3, Len(toks)))
             member == Member(toks[1][2], r.value)
         IN IF ~r.ok \/ r.rest = <<>> THEN NoParse
            ELSE IF Head(r.rest) = Punct(",")
                 THEN ParseMembers(Tail(r.rest), Append(acc, member))
            ELSE IF Head(r.rest) = Punct("}")
                 THEN [ok |-> TRUE, value |-> JObj(Append(acc, member)), rest |-> Tail(r.rest)]
            ELSE NoParse

\* Object.keys(value) with the values: the members of an object, the indices
\* of an array
Keyed(x) ==
    IF x.t = "arr" THEN [k \in 1..Len(x.v) |-> Member(ToString(k - 1), x.v[k])] ELSE x.v

\* the chunks, in the order of the awaited write(...) calls
RECURSIVE FacetChunksLeadingComma(_, _)
\* the facets loop with the comma written before every element
FacetChunksLeadingComma(items, k) ==
    IF k > Len(items) THEN <<>>
    ELSE <<<<Punct(",")>>>> \o <<Stringify(items[k])>> \o FacetChunksLeadingComma(items, k + 1)

RECURSIVE FacetChunks(_, _)
\* "Stream facets array one item at a time", k counting from 1
FacetChunks(items, k) ==
    IF k > Len(items) THEN <<>>
    ELSE (IF k > 1 THEN <<<<Punct(",")>>>> ELSE <<>>)
         \o <<Stringify(items[k])>>
         \o FacetChunks(items, k + 1)

RECURSIVE VeilChunks(_, _)
\* the loop over Object.keys(value) of veilState, j counting from 1
VeilChunks(members, j) ==
    IF j > Len(members) THEN <<>>
    ELSE (IF j > 1 THEN <<<<Punct(",")>>>> ELSE <<>>)
         \o <<<<StrTok(members[j].key), Punct(":")>>>>
         \o (IF members[j].key = "facets" /\ members[j].value.t = "arr"
             THEN <<<<Punct("[")>>>> \o FacetChunks(members[j].value.v, 1) \o <<<<Punct("]")>>>>
             ELSE <<Stringify(members[j].value)>>)
         \o VeilChunks(members, j + 1)

RECURSIVE KeyChunks(_, _)
\* the loop over Object.keys(snapshot), i counting from 1
KeyChunks(members, i) ==
    IF i > Len(members) THEN <<>>
    ELSE (IF i > 1 THEN <<<<Punct(",")>>>> ELSE <<>>)
         \o <<<<StrTok(members[i].key), Punct(":")>>>>
         \o (IF members[i].key = "veilState" /\ members[i].value.t \in {"obj", "arr"}
             THEN <<<<Punct("{")>>>> \o VeilChunks(Keyed(members[i].value), 1) \o <<<<Punct("}")>>>>
             ELSE <<Stringify(members[i].value)>>)
         \o KeyChunks(members, i + 1)

Chunks(snap) == <<<<Punct("{")>>>> \o KeyChunks(snap.v, 1) \o <<<<Punct("}")>>>>

\* what the sink holds: the chunks one after the other
RECURSIVE Concat(_)
Concat(chunks) == IF chunks = <<>> THEN <<>> ELSE Head(chunks) \o Concat(Tail(chunks))

\* write(data): stream.write(data) with the test of ok left out
StreamWriteNoWait ==
    /\ spc = "writing"
    /\ Len(handed) < Len(Chunks(document))
    /\ handed' = Append(handed, Chunks(document)[Len(handed) + 1])
    /\ IF sink = "open"
       THEN /\ \E ok \in BOOLEAN : needDrain' = ~ok
            /\ spc' = "writing"
       ELSE /\ \E event \in BOOLEAN : spc' = IF event THEN "caught" ELSE "waiting"
            /\ UNCHANGED needDrain
    /\ UNCHANGED <<cvars, fvars, wvars, hvars, dvars, document, sink, promise>>
    /\ UNCHANGED xvars

\* write(data): one chunk goes to stream.write; when it returns false the body
\* waits for 'drain' or 'error'. On a stream that has errored the chunk is
\* not taken and the body waits, or is told the error and reaches the catch
StreamWrite ==
    /\ spc = "writing"
    /\ Len(handed) < Len(Chunks(document))
    /\ handed' = Append(handed, Chunks(document)[Len(handed) + 1])
    /\ IF sink = "open"
       THEN \E ok \in BOOLEAN :
              /\ needDrain' = ~ok
              /\ spc' = IF ok THEN "writing" ELSE "waiting"
       ELSE /\ \E event \in BOOLEAN : spc' = IF event THEN "caught" ELSE "waiting"
            /\ UNCHANGED needDrain
    /\ UNCHANGED <<cvars, fvars, wvars, hvars, dvars, document, sink, promise>>
    /\ UNCHANGED xvars

\* the sink emits 'drain'
SinkDrain ==
    /\ sink = "open"
    /\ needDrain
    /\ needDrain' = FALSE
    /\ spc' = IF spc = "waiting" THEN "writing" ELSE spc
    /\ UNCHANGED <<cvars, fvars, wvars, hvars, dvars, document, handed, sink, promise>>
    /\ UNCHANGED xvars

\* stream.end() after the closing brace
StreamEnd ==
    /\ spc = "writing"
    /\ Len(handed) = Len(Chunks(document))
    /\ spc' = "ended"
    /\ UNCHANGED <<cvars, fvars, wvars, hvars, dvars, document, handed, needDrain, sink, promise>>
    /\ UNCHANGED xvars

\* the sink emits 'finish': resolve. Every chunk is in the file the stream
\* opened, and the stream closes it
SinkFinish ==
    /\ sink = "open"
    /\ spc = "ended"
    /\ sink' = "finished"
    /\ promise' = IF promise = "pending" THEN "resolved" ELSE promise
    /\ fs' = IF wfd[Migration] \in Paths
             THEN [fs EXCEPT ![wfd[Migration]] = FullFile(wout[Migration])]
             ELSE fs
    /\ wfd' = [wfd EXCEPT ![Migration] = NoPath]
    /\ UNCHANGED <<mvars, fvars, hvars, dvars, wpc, wN, wout, marker,
                   document, handed, spc, needDrain>>
    /\ UNCHANGED xvars

\* the sink emits 'error': reject; a body waiting for 'drain' is rejected too
\* and reaches the catch (stream.destroy(), reject)
SinkError ==
    /\ sink = "open"
    /\ sink' = "errored"
    /\ promise' = IF promise = "pending" THEN "rejected" ELSE promise
    /\ spc' = IF spc = "waiting" THEN "caught" ELSE spc
    /\ wfd' = [wfd EXCEPT ![Migration] = NoPath]
    /\ UNCHANGED <<cvars, fvars, hvars, dvars, wpc, wN, wout, marker,
                   document, handed, needDrain>>
    /\ UNCHANGED xvars

NextStream ==
    \/ StreamWrite
    \/ SinkDrain
    \/ StreamEnd
    \/ SinkFinish
    \/ SinkError

\* the entries of veilState.facets: [id, facet] pairs
FacetEntries ==
    {JArr(<<JStr("f1"), JObj(<<Member("type", JStr("image"))>>)>>),
     JArr(<<JStr("f2"), JObj(<<>>)>>)}

FacetArrays == UNION {[1..n -> FacetEntries] : n \in 0..MaxFacets}

\* veilState: an object that has a facets array, alone, followed or preceded
\* by other members
VeilStates ==
    {JObj(before \o <<Member("facets", JArr(entries))>> \o after) :
        entries \in FacetArrays,
        before \in {<<>>, <<Member("currentSequence", JStr("7"))>>},
        after \in {<<>>, <<Member("frameHistory", JArr(<<JObj(<<>>)>>)),
                           Member("removals", JArr(<<>>))>>}}

\* the snapshots migrateImages passes on: veilState.facets is an array
Documents ==
    {JObj(before \o <<Member("veilState", veil)>> \o after) :
        veil \in VeilStates,
        before \in {<<>>, <<Member("version", JStr("1"))>>},
        after \in {<<>>, <<Member("timestamp", JNull)>>}}

InitStream ==
    /\ document \in Documents
    /\ handed = <<>>
    /\ spc = "writing"
    /\ needDrain = FALSE
    /\ sink = "open"
    /\ promise = "pending"
    /\ OthersOff
    /\ CompactorOff
    /\ TransformOff
    /\ WritersOff
    /\ HostOff
    /\ FindOff

\* ------------------------------------------- the compactor's command line
\* what the snapshot directory holds: snapshots, one of them with its temp
\* file beside it, and an entry that is no snapshot
DirNames ==
    {SnapshotName(<<"9">>, <<"1">>), SnapshotName(<<"1", "0">>, <<"2">>),
     SnapshotName(<<"1", "0">>, <<"3">>), SnapshotName(<<"0">>, <<"4">>),
     SnapshotName(<<"1", "0">>, <<"2">>) \o tmpSuffix,
     <<"b", "u", "c", "k", "e", "t", "s">>}

Listings ==
    {files \in UNION {[1..n -> DirNames] : n \in 0..MaxFiles} :
        \A i, j \in 1..Len(files) : files[i] = files[j] => i = j}

\* the CLI calls findLatestSnapshot
Find ==
    /\ cli = "start"
    /\ latest' = findLatestSnapshot(dir)
    /\ cli' = "found"
    /\ UNCHANGED <<cvars, fvars, wvars, hvars, svars, dir>>
    /\ UNCHANGED xvars

\* if (!latestSnapshot) process.exit(1)
CliNoSnapshot ==
    /\ cli = "found"
    /\ latest = null
    /\ cli' = "exit 1"
    /\ UNCHANGED <<cvars, fvars, wvars, hvars, svars, dir, latest>>
    /\ UNCHANGED xvars

\* compactSnapshot({ snapshotPath: latestSnapshot, maxFrames }) returns, or throws
CliCompact ==
    /\ cli = "found"
    /\ latest # null
    /\ \E thrown \in BOOLEAN : cli' = IF thrown THEN "exit 1" ELSE "exit 0"
    /\ UNCHANGED <<cvars, fvars, wvars, hvars, svars, dir, latest>>
    /\ UNCHANGED xvars

NextFind ==
    \/ Find
    \/ CliNoSnapshot
    \/ CliCompact

InitFind ==
    /\ dir \in Listings \cup {Unreadable}
    /\ latest = null
    /\ cli = "start"
    /\ OthersOff
    /\ CompactorOff
    /\ TransformOff
    /\ WritersOff
    /\ HostOff
    /\ StreamOff

\* --------------------------------------------- migrateImages, run by run
\* the snapshot object as the JSON document JSON.parse gave: veilState.facets
\* is an array of [id, facet] pairs
ToDocument(snap) ==
    JObj(<<Member("veilState",
                  JObj(<<Member("facets",
                                JArr([i \in 1..Len(snap.facets) |->
                                        JArr(<<JStr(ToString(snap.facets[i].id)),
                                               JObj(IF "image" \in DOMAIN snap.facets[i]
                                                    THEN <<Member("image",
                                                                  JStr(snap.facets[i].image))>>
                                                    ELSE <<>>)>>)]))>>))>>)

\* await streamWriteSnapshot(snapshot, tempPath): createWriteStream makes or
\* truncates the temp file, or fails to open it ('error', and no file is made)
MigrateWrite ==
    /\ wpc[Migration] = "write"
    /\ wpc' = [wpc EXCEPT ![Migration] = "writing"]
    /\ document' = ToDocument(wout[Migration])
    /\ handed' = <<>>
    /\ spc' = "writing"
    /\ needDrain' = FALSE
    /\ \E opened \in BOOLEAN :
         IF opened
         THEN /\ fs' = [fs EXCEPT ![TempPath(SnapshotPath)] = PartialFile(wout[Migration])]
              /\ wfd' = [wfd EXCEPT ![Migration] = TempPath(SnapshotPath)]
              /\ dir' \in Listed(dir, tempName(dir))
              /\ sink' = "open"
              /\ promise' = "pending"
         ELSE /\ sink' = "errored"
              /\ promise' = "rejected"
              /\ UNCHANGED <<fs, wfd, dir>>
    /\ UNCHANGED <<mvars, fvars, hvars, latest, cli, wN, wout, marker>>
    /\ UNCHANGED xvars

\* the rename is reached without the promise being awaited
MigrateNotAwaited ==
    /\ wpc[Migration] = "writing"
    /\ promise \in {"pending", "resolved"}
    /\ wpc' = [wpc EXCEPT ![Migration] = "rename"]
    /\ UNCHANGED <<fs, mvars, fvars, hvars, svars, dvars, wN, wout, wfd, marker>>
    /\ UNCHANGED xvars

\* the awaited promise has resolved: on to the rename
MigrateAwaited ==
    /\ wpc[Migration] = "writing"
    /\ promise = "resolved"
    /\ wpc' = [wpc EXCEPT ![Migration] = "rename"]
    /\ UNCHANGED <<fs, mvars, fvars, hvars, svars, dvars, wN, wout, wfd, marker>>
    /\ UNCHANGED xvars

\* the awaited promise has rejected: catch, console.error, throw error
MigrateRejected ==
    /\ wpc[Migration] = "writing"
    /\ promise = "rejected"
    /\ wpc' = [wpc EXCEPT ![Migration] = "failed"]
    /\ UNCHANGED <<fs, mvars, fvars, hvars, svars, dvars, wN, wout, wfd, marker>>
    /\ UNCHANGED xvars

\* the process ends, in whatever step it is, and the host starts again: the
\* files stay, everything in memory is gone
MigrateRestart ==
    /\ wpc[Migration] \notin {"start", "off"}
    /\ wpc' = [wpc EXCEPT ![Migration] = "start"]
    /\ wout' = [wout EXCEPT ![Migration] = EmptySnapshot]
    /\ wfd' = [wfd EXCEPT ![Migration] = NoPath]
    /\ latest' = null
    /\ document' = <<>>
    /\ handed' = <<>>
    /\ spc' = "off"
    /\ needDrain' = FALSE
    /\ sink' = "off"
    /\ promise' = "off"
    /\ UNCHANGED <<fs, mvars, fvars, hvars, dir, cli, wN, marker>>
    /\ UNCHANGED xvars

NextMigration ==
    \/ MigrateSkip
    \/ MigrateFind
    \/ MigrateLoad
    \/ LoadFails(Migration)
    \/ MigrateWrite
    \/ StreamWrite
    \/ SinkDrain
    \/ StreamEnd
    \/ SinkFinish
    \/ SinkError
    \/ MigrateAwaited
    \/ MigrateRejected
    \/ RenameTemp(Migration)
    \/ RenameFails(Migration)
    \/ MigrateMark
    \/ MarkFails
    \/ MigrateRestart

\* the host starts with a state directory: any listing of the snapshot
\* directory, the newest snapshot holding an image that is compressed or is
\* not yet, a temp file beside it if an earlier run left one, the marker if
\* an earlier run wrote it
InitMigration ==
    \E image \in {"raw", "small"} :
      LET snap == Snapshot([i \in Ids |->
                              IF i = 1 THEN ImageFacet(i, NoId, image)
                              ELSE Facet(i, Speech, NoId, <<>>)],
                           AddFrames([i \in 1..MaxSeq |-> i]), <<>>, NoCompaction)
      IN /\ dir \in Listings \cup {Unreadable}
         /\ latest = null
         /\ cli = "off"
         /\ fs = [p \in Paths |->
                    IF findLatestSnapshot(dir) = null THEN NoFile
                    ELSE IF p = SnapshotPath THEN FullFile(snap)
                    ELSE IF tempName(dir) \in SeqToSet(dir) THEN PartialFile(snap)
                    ELSE NoFile]
         /\ original = fs[SnapshotPath]
         /\ buckets = <<>>
         /\ bucketOk = {}
         /\ maxFrames = 0
         /\ pc = "off"
         /\ run = 1
         /\ snapshot = EmptySnapshot
         /\ recentFrames = <<>>
         /\ facetIds = <<>>
         /\ childToParent = NoParents
         /\ expanded = {}
         /\ todo = <<>>
         /\ current = NoId
         /\ compactedSnapshot = EmptySnapshot
         /\ outs = <<>>
         /\ OthersOff
         /\ TransformOff
         /\ HostOff
         /\ StreamOff
         /\ wpc = [w \in Writers |-> IF w = Migration THEN "start" ELSE "off"]
         /\ wN = [w \in Compactions |-> 0]
         /\ wout = [w \in Writers |-> EmptySnapshot]
         /\ wfd = [w \in Writers |-> NoPath]
         /\ marker \in BOOLEAN

\* ------------------------------------------------ ToolLoopAgent.runCycle
NoToolId == <<0, 0>>
TextBlock(text) == [type |-> "text", id |-> NoToolId, text |-> text]
ToolUseBlock(toolCall) == [type |-> "tool_use", id |-> toolCall.id, text |-> toolCall.name]
ToolResultBlock(tr) == [type |-> "tool_result", id |-> tr.tool_use_id, text |-> tr.content]

Message(role, content) == [role |-> role, content |-> content]

\* context.messages of the rendered context
contextMessages ==
    <<Message("system", <<TextBlock("prompt")>>), Message("cache", <<>>),
      Message("user", <<TextBlock("hello")>>)>>

\* this.tools: the registered handlers; a model may name a tool that is not one
tools == {"fetch"}
ToolNames == {"fetch", "nope"}

\* what a handler does when called: it returns a string, throws an Error, or
\* rejects with no value (throw undefined, Promise.reject())
Outcomes == {"returns", "throws Error", "rejects"}

\* executeTool(name, input): the string it returns; thrown is TRUE when the
\* call itself throws, which is reading error.message of undefined in the catch
executeTool(name, outcome) ==
    IF name \notin tools THEN [thrown |-> FALSE, content |-> "Error: Unknown tool"]
    ELSE IF outcome = "returns" THEN [thrown |-> FALSE, content |-> "result"]
    ELSE IF outcome = "throws Error"
         THEN [thrown |-> FALSE, content |-> "Error executing tool: message"]
    ELSE [thrown |-> TRUE, content |-> "TypeError"]

\* the responses a provider can return in answer to call number n: a stop
\* reason, and tool_use blocks or none (toolCalls is undefined without any:
\* the empty sequence stands for undefined)
Responses(n) ==
    [stopReason : {"end_turn", "tool_use", "max_tokens"},
     toolCalls : UNION {{[i \in 1..k |-> [id |-> <<n, i>>, name |-> names[i]]] :
                            names \in [1..k -> ToolNames]} : k \in 0..MaxCalls},
     content : {"", "text"}]

\* getAssistantContent(response)
getAssistantContent(r) ==
    (IF r.content # "" THEN <<TextBlock(r.content)>> ELSE <<>>)
        \o [i \in 1..Len(r.toolCalls) |-> ToolUseBlock(r.toolCalls[i])]

\* the conversion of the base messages, as AnthropicToolProvider does it:
\* cache markers and system messages are filtered out
conversationMessages(messages) ==
    SelectSeq(messages, LAMBDA m : m.role # "cache" /\ m.role # "system")

\* the messages of the request sendToolResults builds
sendToolResults(messages, assistantContent, results) ==
    conversationMessages(messages)
        \o <<Message("assistant", assistantContent)>>
        \o <<Message("user", [i \in 1..Len(results) |-> ToolResultBlock(results[i])])>>

\* the while condition without the test of toolRounds
LoopGoesOnUnbounded ==
    response.stopReason = "tool_use" /\ response.toolCalls # <<>> /\ toolRounds <= MaxRounds

\* the while condition of the tool loop
LoopGoesOn ==
    response.stopReason = "tool_use" /\ response.toolCalls # <<>> /\ toolRounds < maxToolRounds

\* let response = await this.provider.generate(context.messages, options)
Generate ==
    /\ apc = "start"
    /\ generated' = generated + 1
    /\ request' = conversationMessages(contextMessages)
    /\ \/ /\ response' \in Responses(1)
          /\ apc' = "loop"
       \/ /\ apc' = "failed"
          /\ UNCHANGED response
    /\ UNCHANGED <<cvars, fvars, wvars, hvars, svars, dvars, gvars, bvars, rvars, tvars,
                   maxToolRounds, toolRounds, toolResults, resultsSent, obtained>>

\* one pass of the while body up to the provider call: toolRounds++ and the
\* for-loop over response.toolCalls, which ends early if executeTool throws
RunTools ==
    /\ apc = "loop"
    /\ LoopGoesOn
    /\ toolRounds' = toolRounds + 1
    /\ \E outcomes \in [1..Len(response.toolCalls) -> Outcomes] :
         LET ran == [i \in 1..Len(response.toolCalls) |->
                        executeTool(response.toolCalls[i].name, outcomes[i])]
             thrown == {i \in 1..Len(ran) : ran[i].thrown}
             upTo == IF thrown = {} THEN Len(ran)
                     ELSE (CHOOSE i \in thrown : \A j \in thrown : i <= j) - 1
         IN /\ toolResults' = [i \in 1..upTo |->
                                  [tool_use_id |-> response.toolCalls[i].id,
                                   content |-> ran[i].content]]
            /\ apc' = IF thrown = {} THEN "send" ELSE "failed"
    /\ UNCHANGED <<cvars, fvars, wvars, hvars, svars, dvars, gvars, bvars, rvars, tvars,
                   maxToolRounds, response, request, generated, resultsSent, obtained>>

\* response = await this.provider.sendToolResults(context.messages,
\* assistantContent, toolResults, options): it returns a response or throws
SendToolResults ==
    /\ apc = "send"
    /\ resultsSent' = resultsSent + 1
    /\ request' = sendToolResults(contextMessages, getAssistantContent(response), toolResults)
    /\ obtained' = obtained \o [i \in 1..Len(toolResults) |-> toolResults[i].tool_use_id]
    /\ \/ /\ response' \in Responses(resultsSent + 2)
          /\ apc' = "loop"
       \/ /\ apc' = "failed"
          /\ UNCHANGED response
    /\ UNCHANGED <<cvars, fvars, wvars, hvars, svars, dvars, gvars, bvars, rvars, tvars,
                   maxToolRounds, toolRounds, toolResults, generated>>

\* the loop is left: the speech operation is built and runCycle returns
Finish ==
    /\ apc = "loop"
    /\ ~LoopGoesOn
    /\ apc' = "done"
    /\ UNCHANGED <<cvars, fvars, wvars, hvars, svars, dvars, gvars, bvars, rvars, tvars,
                   maxToolRounds, response, toolRounds, toolResults, request, generated,
                   resultsSent, obtained>>

NextAgent ==
    \/ Generate
    \/ RunTools
    \/ SendToolResults
    \/ Finish

\* a cycle about to run, for an agent configured with some maxToolRounds
InitAgent ==
    /\ maxToolRounds \in 0..MaxRounds
    /\ apc = "start"
    /\ response = [stopReason |-> "end_turn", toolCalls |-> <<>>, content |-> ""]
    /\ toolRounds = 0
    /\ toolResults = <<>>
    /\ request = <<>>
    /\ generated = 0
    /\ resultsSent = 0
    /\ obtained = <<>>
    /\ ProviderOff
    /\ BedrockOff
    /\ ReconnectOff
    /\ ReceptorOff
    /\ CompactorOff
    /\ TransformOff
    /\ WritersOff
    /\ HostOff
    /\ StreamOff
    /\ FindOff

\* every call of the provider and of a handler returns or throws
AgentProgress ==
    /\ WF_vars(Generate)
    /\ WF_vars(RunTools)
    /\ WF_vars(SendToolResults)
    /\ WF_vars(Finish)

\* ------------------------------------------------ the providers' generate
\* strings that are searched are sequences of characters
toLowerCase(str) ==
    [i \in 1..Len(str) |->
        CASE str[i] = "C" -> "c" [] str[i] = "E" -> "e" [] str[i] = "N" -> "n"
          [] str[i] = "O" -> "o" [] str[i] = "R" -> "r" [] str[i] = "S" -> "s"
          [] str[i] = "T" -> "t" [] OTHER -> str[i]]

\* String.prototype.includes
Includes(str, part) ==
    \E i \in 0..(Len(str) - Len(part)) : SubSeq(str, i + 1, i + Len(part)) = part

retryableStatuses == {429, 500, 502, 503, 504}

\* what the API call can throw: an error of the client library or another
\* one, with a status or none (0), with a message or none (the AWS client
\* leaves message null for an error response without a body)
Err(apiError, status, message) == [apiError |-> apiError, status |-> status, message |-> message]
Errors ==
    {Err(TRUE, 400, <<"b", "a", "d">>),
     Err(TRUE, 429, <<"r", "a", "t", "e">>),
     Err(TRUE, 503, <<>>),
     Err(FALSE, 503, <<"b", "u", "s", "y">>),
     Err(FALSE, 0, <<"C", "o", "n", "n", "e", "c", "t", "i", "o", "n", " ", "l", "o", "s", "t">>),
     Err(FALSE, 0, <<"s", "o", "c", "k", "e", "t", " ", "t", "i", "m", "e", "o", "u", "t">>),
     Err(FALSE, 0, <<"t", "i", "m", "e", "d", " ", "o", "u", "t">>),
     Err(FALSE, 0, <<"T", "h", "r", "o", "t", "t", "l", "e", "d">>),
     Err(FALSE, 0, <<"E", "C", "O", "N", "N", "R", "E", "S", "E", "T">>)}

\* isRetryableError(error) of the provider at hand
isRetryableError(kind, error) ==
    LET message == toLowerCase(error.message)
    IN IF kind = "anthropic"
       THEN \/ error.apiError /\ error.status # 0 /\ error.status \in retryableStatuses
            \/ Includes(message, <<"c", "o", "n", "n", "e", "c", "t", "i", "o", "n">>)
            \/ Includes(message, <<"t", "i", "m", "e", "o", "u", "t">>)
            \/ Includes(message, <<"e", "c", "o", "n", "n", "r", "e", "s", "e", "t">>)
       ELSE \/ error.status # 0 /\ error.status \in retryableStatuses
            \/ Includes(message, <<"t", "h", "r", "o", "t", "t", "l">>)
            \/ Includes(message, <<"t", "i", "m", "e", "o", "u", "t">>)
            \/ Includes(message, <<"c", "o", "n", "n", "e", "c", "t", "i", "o", "n">>)

\* the test of the catch block without the bound on attempt
shouldRetryUnbounded(error) == isRetryableError(providerKind, error)

\* const shouldRetry = attempt < this.maxRetries && this.isRetryableError(error)
shouldRetry(error) == attempt < maxRetries /\ isRetryableError(providerKind, error)

RECURSIVE Pow2(_)
Pow2(n) == IF n = 0 THEN 1 ELSE 2 * Pow2(n - 1)

\* `<provider> API error: ${lastError?.message || 'Unknown error'}`
Wrapped(kind, error) ==
    [prefix |-> IF kind = "anthropic" THEN "Anthropic API error: " ELSE "Bedrock API error: ",
     message |-> IF error.message # <<>> THEN error.message
                 ELSE <<"U", "n", "k", "n", "o", "w", "n", " ", "e", "r", "r", "o", "r">>]

\* the API call of the attempt at hand succeeds: generate returns the response
CreateReturns ==
    /\ gpc = "try"
    /\ apiCalls' = apiCalls + 1
    /\ gpc' = "returned"
    /\ UNCHANGED <<cvars, fvars, wvars, hvars, svars, dvars, avars, bvars, rvars, tvars,
                   providerKind, maxRetries, retryDelay, attempt, lastError, delays, raised>>

\* the API call throws: the catch block, up to the sleep or to the throw
\* after the loop
CreateThrows ==
    /\ gpc = "try"
    /\ apiCalls' = apiCalls + 1
    /\ \E error \in Errors :
         /\ lastError' = error
         /\ IF shouldRetry(error)
            THEN /\ delays' = Append(delays, retryDelay * Pow2(attempt))
                 /\ gpc' = "sleep"
                 /\ UNCHANGED raised
            ELSE /\ raised' = Wrapped(providerKind, error)
                 /\ gpc' = "thrown"
                 /\ UNCHANGED delays
    /\ UNCHANGED <<cvars, fvars, wvars, hvars, svars, dvars, avars, bvars, rvars, tvars,
                   providerKind, maxRetries, retryDelay, attempt>>

\* the timer fires: continue, attempt++ and the loop test; when the test
\* fails the loop is left and the wrapped error is thrown
Continue ==
    /\ gpc = "sleep"
    /\ attempt' = attempt + 1
    /\ gpc' = IF attempt + 1 <= maxRetries THEN "try" ELSE "thrown"
    /\ raised' = IF attempt + 1 <= maxRetries THEN raised ELSE Wrapped(providerKind, lastError)
    /\ UNCHANGED <<cvars, fvars, wvars, hvars, svars, dvars, avars, bvars, rvars, tvars,
                   providerKind, maxRetries, retryDelay, apiCalls, lastError, delays>>

NextProvider ==
    \/ CreateReturns
    \/ CreateThrows
    \/ Continue

\* a generate call about to enter its retry loop
InitProvider ==
    /\ providerKind \in {"anthropic", "bedrock"}
    /\ maxRetries \in 0..MaxRetries
    /\ retryDelay \in {1, 1000}
    /\ attempt = 0
    /\ apiCalls = 0
    /\ lastError = <<>>
    /\ gpc = "try"
    /\ delays = <<>>
    /\ raised = <<>>
    /\ AgentOff
    /\ BedrockOff
    /\ ReconnectOff
    /\ ReceptorOff
    /\ CompactorOff
    /\ TransformOff
    /\ WritersOff
    /\ HostOff
    /\ StreamOff
    /\ FindOff

\* ------------------------------------------------ the Bedrock provider's message list
\* formatContent(msg) of a message without attachments: one text block
formatContent(msg) == <<TextBlock(msg.content)>>

separator == Message("user", <<TextBlock("[continue]")>>)
historyHead == Message("user", <<TextBlock("[conversation history]")>>)

RECURSIVE Flat(_)
Flat(messages) ==
    IF messages = <<>> THEN <<>> ELSE Head(messages).content \o Flat(Tail(messages))

\* the while loop of mergeConsecutiveMessages from index i on
RECURSIVE Merge(_, _, _)
Merge(messages, i, merged) ==
    IF i > Len(messages) THEN merged
    ELSE IF messages[i].role = "user"
    THEN LET others == {j \in i..Len(messages) : messages[j].role # "user"}
             next == IF others = {} THEN Len(messages) + 1
                     ELSE CHOOSE j \in others : \A k \in others : j <= k
         IN Merge(messages, next,
                  Append(merged, Message("user", Flat(SubSeq(messages, i, next - 1)))))
    ELSE LET kept == IF merged # <<>> /\ merged[Len(merged)].role = "assistant"
                     THEN Append(merged, separator) ELSE merged
         IN Merge(messages, i + 1, Append(kept, messages[i]))

\* mergeConsecutiveMessages(messages): the copy of part_002 puts a user
\* message before a list that starts with an assistant message
mergeConsecutiveMessages(version, messages) ==
    LET merged == Merge(messages, 1, <<>>)
    IN IF version = "part_002" /\ merged # <<>> /\ merged[1].role = "assistant"
       THEN <<historyHead>> \o merged
       ELSE merged

\* conversationMessages.map(msg => ({role, content: formatContent(msg)}))
Formatted(messages) ==
    LET conversation == conversationMessages(messages)
    IN [i \in 1..Len(conversation) |->
           Message(conversation[i].role, formatContent(conversation[i]))]

\* the assistant content and the tool results runCycle hands over
someToolCall == [id |-> <<1, 1>>, name |-> "fetch"]
someToolResult == [tool_use_id |-> <<1, 1>>, content |-> "result"]

\* generate: the request body's messages
BedrockGenerate ==
    /\ bpc = "ready"
    /\ bedrockMessages' = mergeConsecutiveMessages(sourceCopy, Formatted(llmMessages))
    /\ bpc' = "generate"
    /\ UNCHANGED <<cvars, fvars, wvars, hvars, svars, dvars, avars, gvars, rvars, tvars,
                   sourceCopy, llmMessages>>

\* sendToolResults: the merged base messages, then the assistant message with
\* the tool use, then the user message with the tool results
BedrockSendToolResults ==
    /\ bpc = "ready"
    /\ bedrockMessages' =
         mergeConsecutiveMessages(sourceCopy, Formatted(llmMessages))
            \o <<Message("assistant", <<ToolUseBlock(someToolCall)>>)>>
            \o <<Message("user", <<ToolResultBlock(someToolResult)>>)>>
    /\ bpc' = "sendToolResults"
    /\ UNCHANGED <<cvars, fvars, wvars, hvars, svars, dvars, avars, gvars, rvars, tvars,
                   sourceCopy, llmMessages>>

NextBedrock ==
    \/ BedrockGenerate
    \/ BedrockSendToolResults

texts == <<"m1", "m2", "m3", "m4", "m5", "m6">>

\* a call with any conversation of up to MaxMsgs messages; message i has the
\* i-th text
InitBedrock ==
    /\ sourceCopy \in {"part_002", "bedrock-provider"}
    /\ \E n \in 0..MaxMsgs :
         \E roles \in [1..n -> {"system", "user", "assistant"}] :
            llmMessages = [i \in 1..n |-> [role |-> roles[i], content |-> texts[i]]]
    /\ bpc = "ready"
    /\ bedrockMessages = <<>>
    /\ AgentOff
    /\ ProviderOff
    /\ ReconnectOff
    /\ ReceptorOff
    /\ CompactorOff
    /\ TransformOff
    /\ WritersOff
    /\ HostOff
    /\ StreamOff
    /\ FindOff

\* ------------------------------------------------ reconnectBot
\* what stays of the bot's pending list once it has been emitted again:
\* pendingMessages.delete(botPhone)
FlushedKept(pending) == pending

Flushed(pending) == <<>>

\* { ...msgPayload, botPhone, __reprocessed: true }
updatedPayload(msgPayload) == [message |-> msgPayload, reprocessed |-> TRUE]

\* reconnectBot(botPhone, queuedMessage) for a bot that has a name and an
\* afferent (every configured bot has both once the host is set up): the
\* message, if one is given, is queued, and afferent.stop() is called
reconnectBot(queuedMessage) ==
    /\ Len(chains) < MaxReconnects
    /\ pendingMessages' = IF queuedMessage # 0 THEN Append(pendingMessages, queuedMessage)
                          ELSE pendingMessages
    /\ chains' = Append(chains, [message |-> queuedMessage, stage |-> "stopping"])
    /\ UNCHANGED <<cvars, fvars, wvars, hvars, svars, dvars, avars, gvars, bvars, tvars, reEmitted>>

\* afferent.stop() of call c resolves: afferent.start() is called
StopResolves(c) ==
    /\ chains[c].stage = "stopping"
    /\ chains' = [chains EXCEPT ![c].stage = "starting"]
    /\ UNCHANGED <<cvars, fvars, wvars, hvars, svars, dvars, avars, gvars, bvars, tvars,
                   pendingMessages, reEmitted>>

\* afferent.start() of call c resolves: every pending message is emitted
\* again and the bot's entry is deleted
StartResolves(c) ==
    /\ chains[c].stage = "starting"
    /\ chains' = [chains EXCEPT ![c].stage = "done"]
    /\ reEmitted' = reEmitted \o [i \in 1..Len(pendingMessages) |->
                                     updatedPayload(pendingMessages[i])]
    /\ pendingMessages' = Flushed(pendingMessages)
    /\ UNCHANGED <<cvars, fvars, wvars, hvars, svars, dvars, avars, gvars, bvars, tvars>>

\* afferent.stop() or afferent.start() of call c rejects: no handler runs
Rejects(c) ==
    /\ chains[c].stage \in {"stopping", "starting"}
    /\ chains' = [chains EXCEPT ![c].stage = "rejected"]
    /\ UNCHANGED <<cvars, fvars, wvars, hvars, svars, dvars, avars, gvars, bvars, tvars,
                   pendingMessages, reEmitted>>

NextReconnect ==
    \/ \E queuedMessage \in {0, Len(chains) + 1} : reconnectBot(queuedMessage)
    \/ \E c \in 1..Len(chains) : StopResolves(c)
    \/ \E c \in 1..Len(chains) : StartResolves(c)
    \/ \E c \in 1..Len(chains) : Rejects(c)

\* the host is set up and nothing is pending
InitReconnect ==
    /\ chains = <<>>
    /\ pendingMessages = <<>>
    /\ reEmitted = <<>>
    /\ AgentOff
    /\ ProviderOff
    /\ BedrockOff
    /\ ReceptorOff
    /\ CompactorOff
    /\ TransformOff
    /\ WritersOff
    /\ HostOff
    /\ StreamOff
    /\ FindOff

\* a promise of the afferent that can resolve does not stay pending for ever
PromisesSettle ==
    \A c \in 1..(MaxReconnects + 1) :
        /\ WF_vars(c <= Len(chains) /\ StopResolves(c))
        /\ WF_vars(c <= Len(chains) /\ StartResolves(c))

\* ------------------------------------------------ SpeakerPrefixReceptor
\* content.replace(/<[^>]+>/g, ''): from the left, a '<' that is followed by
\* at least one character other than '>' and then by a '>' is cut out with
\* everything up to the first such '>'
RECURSIVE StripTags(_)
StripTags(str) ==
    IF str = <<>> THEN <<>>
    ELSE LET closes == {j \in 3..Len(str) : str[j] = ">"}
         IN IF str[1] = "<" /\ Len(str) >= 2 /\ str[2] # ">" /\ closes # {}
            THEN StripTags(SubSeq(str, (CHOOSE j \in closes : \A k \in closes : j <= k) + 1,
                                  Len(str)))
            ELSE <<str[1]>> \o StripTags(Tail(str))

\* String.prototype.trim
RECURSIVE trim(_)
trim(str) ==
    IF str = <<>> THEN <<>>
    ELSE IF Head(str) = " " THEN trim(Tail(str))
    ELSE IF str[Len(str)] = " " THEN trim(SubSeq(str, 1, Len(str) - 1))
    ELSE str

\* `${agentName}: `
prefixOf(name) == name \o <<":", " ">>

\* the facet is a speech facet with an agentName and an agentId
IsAgentSpeech(facet) ==
    facet.type = "speech" /\ facet.agentName # <<>> /\ facet.agentId # <<>>

\* facet.content after transform(event, state): unchanged unless the
\* operation adds an agent's speech facet; else the tags are stripped and
\* the prefix is put in front unless the stripped content starts with it
SpeakerTransform(operation, facet) ==
    IF operation # "addFacet" \/ ~IsAgentSpeech(facet) THEN facet.content
    ELSE LET content == trim(StripTags(facet.content))
         IN IF StartsWithChars(content, prefixOf(facet.agentName)) THEN content
            ELSE prefixOf(facet.agentName) \o content

\* the receptor is given the event once more: it changes the payload's facet
\* in place and returns no deltas
ReceptorPass ==
    /\ opType # "none"
    /\ Len(returnedDeltas) < MaxPasses
    /\ opFacet' = [opFacet EXCEPT !.content = SpeakerTransform(opType, opFacet)]
    /\ contents' = Append(contents, SpeakerTransform(opType, opFacet))
    /\ returnedDeltas' = Append(returnedDeltas, <<>>)
    /\ UNCHANGED <<cvars, fvars, wvars, hvars, svars, dvars, avars, gvars, bvars, rvars, opType>>

NextReceptor == ReceptorPass

Alphabet == {"<", ">", " ", ":", "a"}

\* a veil:operation event with any content of up to MaxContent characters:
\* the speech facet of agent "a", or a facet or operation the receptor
\* passes over
InitReceptor ==
    /\ \E kind \in {<<"addFacet", "speech", <<"a">>, <<"i">>>>,
                    <<"addFacet", "speech", <<>>, <<"i">>>>,
                    <<"addFacet", "speech", <<"a">>, <<>>>>,
                    <<"addFacet", "event", <<"a">>, <<"i">>>>,
                    <<"changeFacet", "speech", <<"a">>, <<"i">>>>} :
         \E n \in 0..MaxContent :
            \E content \in [1..n -> Alphabet] :
               /\ opType = kind[1]
               /\ opFacet = [type |-> kind[2], agentName |-> kind[3], agentId |-> kind[4],
                             content |-> content]
               /\ contents = <<content>>
    /\ returnedDeltas = <<>>
    /\ AgentOff
    /\ ProviderOff
    /\ BedrockOff
    /\ ReconnectOff
    /\ CompactorOff
    /\ TransformOff
    /\ WritersOff
    /\ HostOff
    /\ StreamOff
    /\ FindOff

SpecTransform == InitTransform /\ [][NextTransform]_vars
SpecAnyOrder == InitAnyOrder /\ [][NextTransform]_vars
SpecScenario == InitScenario /\ [][NextTransform]_vars

SpecRefs == InitRefs /\ [][NextCompactor]_vars
SpecLayout == InitLayout /\ [][NextCompactor]_vars
SpecGraph == InitGraph /\ [][NextCompactor]_vars
SpecKeep == InitKeep /\ [][NextCompactor]_vars
SpecTypes == InitTypes /\ [][NextCompactor]_vars
SpecBuckets == InitBuckets /\ [][NextCompactor]_vars
SpecHost == InitHost /\ [][NextHost]_vars
SpecStream == InitStream /\ [][NextStream]_vars
SpecMigration == InitMigration /\ [][NextMigration]_vars
SpecEffector == InitHost /\ [][NextEffector]_vars
SpecAgent == InitAgent /\ [][NextAgent]_vars
SpecProvider == InitProvider /\ [][NextProvider]_vars
SpecBedrock == InitBedrock /\ [][NextBedrock]_vars
SpecReconnect == InitReconnect /\ [][NextReconnect]_vars
SpecReceptor == InitReceptor /\ [][NextReceptor]_vars
FairSpecReconnect == InitReconnect /\ [][NextReconnect]_vars /\ PromisesSettle
FairSpecAgent == InitAgent /\ [][NextAgent]_vars /\ AgentProgress
SpecFind == InitFind /\ [][NextFind]_vars
SpecWriters == InitWriters /\ [][NextWriters]_vars

\* a running compactor keeps executing its own synchronous steps; neither a
\* crash nor an I/O failure is ever bound to happen
CompactorProgress ==
    /\ WF_vars(LoadSnapshot)
    /\ WF_vars(WalkTest)
    /\ WF_vars(WalkClimb)
    /\ WF_vars(BuildCompacted)

FairSpecGraph == InitGraph /\ [][NextCompactor]_vars /\ CompactorProgress

\* a frame the Space has opened runs through its phases, queued veil:operation
\* events get their frame, and a background cycle's promise settles; no
\* message is ever bound to arrive
HostProgress ==
    /\ WF_vars(OperationFrame)
    /\ WF_vars(Process)
    /\ WF_vars(ApplyReturned)
    /\ WF_vars(Execute)
    /\ WF_vars(CloseFrame)
    /\ \A c \in 1..(2 * MaxActs) : WF_vars(c <= Len(cycles) /\ CycleEnds(c))

\* the body goes on to its next write or to end(), and an open sink drains
\* and finishes; no error is ever bound to happen
StreamProgress ==
    /\ WF_vars(StreamWrite)
    /\ WF_vars(StreamEnd)
    /\ WF_vars(SinkDrain)
    /\ WF_vars(SinkFinish)

FairSpecStream == InitStream /\ [][NextStream]_vars /\ StreamProgress

FairSpecHost == InitHost /\ [][NextHost]_vars /\ HostProgress

\* ------------------------------------------------------------ vocabulary
\* the snapshot a run started from, and the one it renamed into place
Orig == original.data
Out == fs[SnapshotPath].data

FacetIdsOf(facets) == {facets[i].id : i \in 1..Len(facets)}

\* the ids a frame names: the target of any delta or veilOp, the facet of any event
NamedByFrame(frame) ==
    {frame.deltas[i].id : i \in 1..Len(frame.deltas)}
      \cup {frame.veilOps[i].id : i \in 1..Len(frame.veilOps)}
      \cup {frame.events[i].id : i \in 1..Len(frame.events)}

NamedBy(frames) == UNION {NamedByFrame(frames[i]) : i \in 1..Len(frames)}

\* p owns c in the facet list: c.parentId = p, or p.children lists c
Owns(facets, p, c) ==
    \E i \in 1..Len(facets) :
        \/ facets[i].id = c /\ facets[i].parentId = p
        \/ facets[i].id = p /\ c \in SeqToSet(facets[i].children)

\* c.parentId = p alone
ParentIdOf(facets, p, c) ==
    \E i \in 1..Len(facets) : facets[i].id = c /\ facets[i].parentId = p

RECURSIVE AncestorsVia(_, _, _, _)
AncestorsVia(Edge(_, _, _), facets, S, n) ==
    IF n = 0 THEN S
    ELSE AncestorsVia(Edge, facets,
                      S \cup {p \in Ids : \E c \in S : Edge(facets, p, c)}, n - 1)

\* every owner, owner's owner, ... of the ids of S
Ancestors(facets, S) == AncestorsVia(Owns, facets, S, MaxIds)
ParentIdAncestors(facets, S) == AncestorsVia(ParentIdOf, facets, S, MaxIds)

AlwaysKept(type) ==
    \/ type \in {<<"element-", "tree">>, <<"host-state">>, <<"config">>, <<"agent-config">>}
    \/ (type # <<>> /\ Head(type) \in {"element-", "component-"})

\* ----------------------------------------------------------------- claims

\* C1: every facet of the snapshot that a retained frame names, by a delta of
\* any kind the program writes or by an embedded event, is in the compacted
\* snapshot's facet list.
C1_NamedFacetsKept ==
    pc = "done" =>
        \A id \in FacetIdsOf(Orig.facets) :
            id \in NamedBy(Out.frameHistory) => id \in FacetIdsOf(Out.facets)

\* C2: the file at the snapshot path is always the complete original or the
\* complete compacted snapshot, and it changes only by the rename of a temp
\* file that was written in full.
C2_SnapshotPathAtomic ==
    /\ fs[SnapshotPath] = original
    /\ [][/\ \/ fs'[SnapshotPath] = original'
             \/ pc' = "done" /\ fs'[SnapshotPath] = FullFile(compactedSnapshot')
          /\ fs'[SnapshotPath] # fs[SnapshotPath] =>
                /\ pc = "rename" /\ pc' = "done"
                /\ fs[SnapshotPath \o <<".tmp">>] = FullFile(compactedSnapshot)
                /\ fs'[SnapshotPath] = fs[SnapshotPath \o <<".tmp">>]]_vars

C2_Witness ==
    /\ pc = "done"
    /\ fs[SnapshotPath] = FullFile(compactedSnapshot)
    /\ fs[SnapshotPath] # original
    /\ Len(Out.facets) < Len(Orig.facets)

C4_KeptOnlyIfReachable ==
    pc = "done" =>
        \A i \in 1..Len(Out.facets) :
            /\ Out.facets[i] \in SeqToSet(Orig.facets)
            /\ \/ Out.facets[i].id \in Ancestors(Orig.facets, NamedBy(Out.frameHistory))
               \/ AlwaysKept(Out.facets[i].type)

C4_Witness ==
    /\ pc = "done"
    /\ \E id \in FacetIdsOf(Out.facets) :
          /\ id \notin NamedBy(Out.frameHistory)
          /\ \A i \in 1..Len(Out.facets) :
                Out.facets[i].id = id => ~AlwaysKept(Out.facets[i].type)
    /\ FacetIdsOf(Orig.facets) # FacetIdsOf(Out.facets)

\* C5: the parent walk ends for every facet list, cyclic ones included: a
\* compaction that has begun expanding leaves the expansion.
C5_ExpansionEnds == (pc \in {"expand", "climb"}) ~> (pc \notin {"expand", "climb"})

\* C6: every facet reached from a named facet along parentId links, through
\* facets of the list, is kept.
C6_ParentIdAncestorsKept ==
    pc = "done" =>
        \A id \in ParentIdAncestors(Orig.facets,
                                    NamedBy(Out.frameHistory) \cap FacetIdsOf(Orig.facets)) :
            id \in FacetIdsOf(Orig.facets) => id \in FacetIdsOf(Out.facets)

\* C7: every facet p of the list that owns a named facet x, by x.parentId = p
\* or by listing x in p.children, is kept.
C7_BothOwnersKept ==
    pc = "done" =>
        \A x \in NamedBy(Out.frameHistory), p \in FacetIdsOf(Orig.facets) :
            Owns(Orig.facets, p, x) => p \in FacetIdsOf(Out.facets)

\* the frames compaction can see: the inline history, then every bucket that loads
FullHistory == Orig.frameHistory \o LoadBuckets(Orig.frameBucketRefs, buckets, bucketOk)

SequencesOf(frames) == {frames[i].sequence : i \in 1..Len(frames)}

\* the n highest numbers of S (all of S when it has fewer)
Highest(S, n) ==
    {x \in S : Cardinality({y \in S : y > x}) < n}

\* C8: the stored frame tail is exactly the min(N, total) frames of the full
\* history with the highest sequence numbers.
C8_TailIsHighestN ==
    pc = "done" =>
        /\ SequencesOf(Out.frameHistory) = Highest(SequencesOf(FullHistory), maxFrames)
        /\ Len(Out.frameHistory) = Min(maxFrames, Len(FullHistory))

\* C9: compacting a compacted snapshot again with the same N yields the same
\* kept facets and the same frame tail.
C9_Idempotent ==
    \A i \in 1..Len(outs) :
        i > 1 =>
            /\ FacetIdsOf(outs[i].facets) = FacetIdsOf(outs[1].facets)
            /\ outs[i].frameHistory = outs[1].frameHistory

\* C10: the frame history of every snapshot compaction writes is strictly
\* increasing in sequence number.
C10_TailStrictlyIncreasing ==
    \A r \in 1..Len(outs) :
        \A i, j \in 1..Len(outs[r].frameHistory) :
            i < j => outs[r].frameHistory[i].sequence < outs[r].frameHistory[j].sequence

\* C11: every facet of the original whose type is in the always-keep set or
\* starts with an always-keep prefix is in the compacted snapshot, unchanged,
\* whatever the retained frames reference and whatever the retention count.
C11_AlwaysKeepTypesKept ==
    pc = "done" =>
        \A i \in 1..Len(Orig.facets) :
            AlwaysKept(Orig.facets[i].type) => Orig.facets[i] \in SeqToSet(Out.facets)

C11_Witness ==
    /\ pc = "done"
    /\ maxFrames > 0
    /\ Len(Out.frameHistory) < Len(Orig.frameHistory)
    /\ Len(Out.facets) < Len(Orig.facets)
    /\ \E i \in 1..Len(Out.facets) :
          /\ AlwaysKept(Out.facets[i].type)
          /\ Out.facets[i].id \notin expanded

\* C12: writers of one snapshot path that overlap never have the same file
\* open for writing, and the snapshot path always holds one complete
\* document: the original or what one of the writers wrote.
C12_WritersApart ==
    /\ \A x, y \in Writers :
          (x # y /\ wfd[x] # NoPath /\ wfd[x] # Unlinked) => wfd[x] # wfd[y]
    /\ \/ fs[SnapshotPath] = original
       \/ \E w \in Writers : fs[SnapshotPath] = FullFile(wout[w])

\* C12, its last part: no writer renames a file that another writer has open
C12_NoRenameWhileOpen ==
    [][fs'[SnapshotPath] # fs[SnapshotPath] =>
          \A w \in Writers : wfd[w] # SnapshotPath \o <<".tmp">>]_vars

\* C12, the snapshot path alone: it never holds a file that is not one
\* complete document
C12_SnapshotPathWhole == fs[SnapshotPath].written = "full"

\* C13: a compactSnapshot call that fails at stat, readFile or JSON.parse ends
\* in failure with every file as it was when the call began: nothing written,
\* no temp file created, nothing renamed.
C13_LoadFailureTouchesNothing ==
    [][(pc = "start" /\ pc' = "failed") =>
          /\ fs' = fs
          /\ fs'[SnapshotPath] = original
          /\ outs' = outs]_vars

\* a second run has failed at load: the first run's rename took the temp
\* file away, and no step of the second run has made one
C13_Witness ==
    /\ pc = "failed"
    /\ run = 2
    /\ fs[SnapshotPath] = original
    /\ ~fs[SnapshotPath \o <<".tmp">>].exists

\* C14: when the write of the temp file fails partway, the call fails (the
\* CLI exits with code 1), nothing is renamed and the file at the snapshot
\* path is the original, untouched.
C14_WriteFailureKeepsOriginal ==
    [][(pc = "writing" /\ pc' = "failed") =>
          /\ fs' = fs
          /\ fs'[SnapshotPath] = original
          /\ outs' = outs
          /\ exitCode' = 1]_vars

C14_Witness ==
    /\ pc = "failed"
    /\ exitCode = 1
    /\ fs[SnapshotPath \o <<".tmp">>].written = "partial"
    /\ fs[SnapshotPath \o <<".tmp">>].data # original.data
    /\ fs[SnapshotPath] = original

\* the frames of the first k referenced buckets that load, in reference order
RECURSIVE LoadedUpTo(_)
LoadedUpTo(k) ==
    IF k = 0 THEN <<>>
    ELSE LoadedUpTo(k - 1) \o
           (IF snapshot.frameBucketRefs[k] \in bucketOk
            THEN buckets[snapshot.frameBucketRefs[k]] ELSE <<>>)

\* C15: whichever buckets fail to load, the frames compaction works on are
\* the inline frames followed by the frames of exactly the buckets that
\* loaded, in reference order, and the last maxFrames of these are the frames
\* of the snapshot it writes.
C15_FailedBucketsSkipped ==
    /\ pc \in {"expand", "climb", "write", "writing", "rename", "done"} =>
          recentFrames = SliceLast(snapshot.frameHistory
                                     \o LoadedUpTo(Len(snapshot.frameBucketRefs)),
                                   maxFrames)
    /\ pc = "done" => Out.frameHistory = recentFrames

C15_Witness ==
    /\ pc = "done"
    /\ run = 1
    /\ \E i, j \in 1..Len(snapshot.frameBucketRefs) :
          /\ i < j
          /\ snapshot.frameBucketRefs[i] \notin bucketOk
          /\ buckets[snapshot.frameBucketRefs[i]] # <<>>
          /\ snapshot.frameBucketRefs[j] \in bucketOk
          /\ buckets[snapshot.frameBucketRefs[j]] # <<>>
          /\ Out.frameHistory = buckets[snapshot.frameBucketRefs[j]]

\* the sequence numbers of a frame list, in its order
SequenceList(frames) == [i \in 1..Len(frames) |-> frames[i].sequence]

\* Scenario A: frames 1..5 without a stream, frames 6..10 of stream p1, frame
\* 7 also adding a facet of stream p2
IsScenarioA ==
    /\ SequenceList(frameHistory) = <<1, 2, 3, 4, 5, 6, 7, 8, 9, 10>>
    /\ \A i \in 1..5 : frameHistory[i].activeStream = NoStream
    /\ \A i \in 6..10 : frameHistory[i].activeStream = "p1"
    /\ \E k \in 1..Len(frameHistory[7].deltas) :
          /\ frameHistory[7].deltas[k].type = "addFacet"
          /\ frameHistory[7].deltas[k].streamId = "p2"

\* C16 as stated: in Scenario A the filter for p2 returns frames 1,2,3,4,5,7.
C16_ScenarioA ==
    (tpc = "rendered" /\ IsScenarioA /\ focusedStreamId = "p2") =>
        SequenceList(filteredFrames) = <<1, 2, 3, 4, 5, 7>>

\* C16 amended: in Scenario A the filter for p2 returns frames 1,2,3,4,5;
\* frame 7 declares stream p1 and is left out although it adds a p2 facet.
C16_ScenarioA_Amended ==
    (tpc = "rendered" /\ IsScenarioA /\ focusedStreamId = "p2") =>
        SequenceList(filteredFrames) = <<1, 2, 3, 4, 5>>

C16_Witness ==
    /\ tpc = "rendered"
    /\ IsScenarioA
    /\ focusedStreamId = "p2"
    /\ Len(filteredFrames) = SETUP_FRAME_LIMIT

\* C17: for a focused stream, no selected frame adds a facet of another
\* stream.
C17_NoOtherStreamFacets ==
    (tpc = "rendered" /\ focusedStreamId # NoStream) =>
        \A i \in 1..Len(filteredFrames) :
            \A k \in 1..Len(filteredFrames[i].deltas) :
                (/\ filteredFrames[i].deltas[k].type = "addFacet"
                 /\ filteredFrames[i].deltas[k].streamId # NoStream)
                    => filteredFrames[i].deltas[k].streamId = focusedStreamId

StrictlyAscending(frames) ==
    \A i, j \in 1..Len(frames) : i < j => frames[i].sequence < frames[j].sequence

\* C18: the frames the filter returns, and the frames with the current frame
\* appended, are in strictly ascending sequence order without repeats,
\* whatever the order of the history.
C18_ResultStrictlyAscending ==
    tpc = "rendered" => StrictlyAscending(filteredFrames) /\ StrictlyAscending(allFrames)

\* the addFacet deltas of a frame that carry a facet of this stream
FacetsOf(frame, streamId) ==
    {k \in 1..Len(frame.deltas) :
        frame.deltas[k].type = "addFacet" /\ frame.deltas[k].streamId = streamId}

\* a frame of the history that declares no stream
Untagged(i) == frameHistory[i].activeStream = NoStream

Selected(i) == frameHistory[i] \in SeqToSet(filteredFrames)

\* C19: for a focused stream, a frame that declares no stream and comes after
\* the setup frames is selected exactly when one of its addFacet deltas
\* carries a facet of the focused stream; facets of other streams in the same
\* frame change nothing.
C19_LateUntaggedByFacet ==
    (tpc = "rendered" /\ focusedStreamId # NoStream) =>
        \A i \in 1..Len(frameHistory) :
            (Untagged(i) /\ frameHistory[i].sequence > SETUP_FRAME_LIMIT) =>
                (Selected(i) <=> FacetsOf(frameHistory[i], focusedStreamId) # {})

C19_Witness ==
    /\ tpc = "rendered"
    /\ focusedStreamId = "p1"
    /\ \E i, j \in 1..Len(frameHistory) :
          /\ Untagged(i) /\ frameHistory[i].sequence > SETUP_FRAME_LIMIT
          /\ FacetsOf(frameHistory[i], "p1") # {} /\ FacetsOf(frameHistory[i], "p2") # {}
          /\ Selected(i)
          /\ Untagged(j) /\ frameHistory[j].sequence > SETUP_FRAME_LIMIT
          /\ frameHistory[j].deltas # <<>>
          /\ ~Selected(j)

\* C20: for a focused stream, every frame that declares no stream and whose
\* sequence number is at most the setup-frame limit, 5, is selected, whatever
\* its deltas are.
C20_SetupFramesSelected ==
    (tpc = "rendered" /\ focusedStreamId # NoStream) =>
        \A i \in 1..Len(frameHistory) :
            (Untagged(i) /\ frameHistory[i].sequence <= 5) => Selected(i)

C20_Witness ==
    /\ tpc = "rendered"
    /\ focusedStreamId = "p1"
    /\ \E i, j \in 1..Len(frameHistory) :
          /\ Untagged(i) /\ frameHistory[i].sequence = 5
          /\ FacetsOf(frameHistory[i], "p1") = {} /\ FacetsOf(frameHistory[i], "p2") # {}
          /\ Selected(i)
          /\ Untagged(j) /\ frameHistory[j].sequence = 6
          /\ ~Selected(j)

\* the current frame exists, no selected frame has its sequence number, and
\* it declares no stream, or no stream is focused, or it declares the focused one
CurrentFrameFits ==
    /\ currentFrame # NoFrame
    /\ \A i \in 1..Len(filteredFrames) : filteredFrames[i].sequence # currentFrame.sequence
    /\ \/ currentFrame.activeStream = NoStream
       \/ focusedStreamId = NoStream
       \/ currentFrame.activeStream = focusedStreamId

\* C21: the frames handed on are the selected history frames followed by the
\* current frame, once, exactly when the current frame fits; otherwise they
\* are the selected history frames alone.
C21_CurrentFrameAppended ==
    tpc = "rendered" =>
        allFrames = (IF CurrentFrameFits THEN filteredFrames \o <<currentFrame>>
                     ELSE filteredFrames)

\* the current frame is the history's last frame, which the filter left
\* out, and it is appended after a selected frame
C21_Witness ==
    /\ tpc = "rendered"
    /\ focusedStreamId = "p1"
    /\ filteredFrames # <<>>
    /\ currentFrame # NoFrame
    /\ \E i \in 1..Len(frameHistory) : frameHistory[i] = currentFrame
    /\ allFrames = filteredFrames \o <<currentFrame>>


\* ------------------------------------------------------------------ C22
\* the frames of the history that process() has just selected for some activation
SelectedByPass ==
    UNION {SeqToSet(windows[w].filteredFrames) : w \in 1..Len(windows)}

\* frameHistory.slice(-n), as a set
LastFrames(n) ==
    {frameHistory[j] : j \in {k \in 1..Len(frameHistory) : k > Len(frameHistory) - n}}

\* C22: the window is filtered from the last maxConversationFrames frames of
\* the history only: when the pass is over, no frame it selected from the
\* history is older than those, whether or not the frame matches the stream.
C22_WindowWithinLastFrames ==
    phase = "effectors" => SelectedByPass \subseteq LastFrames(maxConversationFrames)

\* ------------------------------------------------------------------ C23
\* C23: within one pass of process() the frames are selected at most once for
\* each target stream: no two of the pass's selections are for the same stream
\* (activations of one stream share one selection).
C23_OneSelectionPerStream ==
    \A i, j \in 1..Len(windows) :
        windows[i].focusedStreamId = windows[j].focusedStreamId => i = j

\* ------------------------------------------------------------------ C24
\* C24: process() only reads the live state: while the transforms run, the
\* frame history keeps its frames in their order and the facet map keeps its
\* entries (what process() gives back is its returned delta list alone).
C24_ProcessReadsOnly ==
    [][phase = "transforms" => (frameHistory' = frameHistory /\ stateFacets' = stateFacets)]_vars

\* process() has returned deltas after selecting some, not all, frames of the history
C24_Witness ==
    /\ phase = "apply"
    /\ returned # <<>>
    /\ \E w \in 1..Len(windows) :
         /\ windows[w].filteredFrames # <<>>
         /\ Len(windows[w].filteredFrames) < Len(frameHistory)
         /\ Len(windows[w].allFrames) > Len(windows[w].filteredFrames)

\* ------------------------------------------------------------------ C30
\* activation k is in the state, addressed to this agent, and a rendered
\* context for it is in the state too
ContextReady(k) ==
    /\ \E i \in 1..Len(stateFacets) :
         /\ stateFacets[i].id = ActivationId(k)
         /\ stateFacets[i].targetAgent \in {NoAgent, agentName}
    /\ contextExists(stateFacets, ActivationId(k))

CycleStarted(k) == \E c \in 1..Len(cycles) : cycles[c].activationId = ActivationId(k)

\* C30: an activation addressed to this agent is not lost when its rendered
\* context comes in a later frame than the activation: once the context is in
\* the state, the effector starts the activation's cycle.
C30_ActivationNotLost ==
    \A k \in 1..MaxActs : ContextReady(k) ~> CycleStarted(k)

\* ------------------------------------------------------------------ C25
\* the chunks handed between the "[" and the "]" of veilState.facets
FacetRun ==
    LET open == CHOOSE i \in 1..Len(handed) : handed[i] = <<Punct("[")>>
        close == CHOOSE i \in 1..Len(handed) : handed[i] = <<Punct("]")>>
    IN SubSeq(handed, open + 1, close - 1)

\* veilState.facets of the document
DocumentFacets ==
    LET top == CHOOSE i \in 1..Len(document.v) : document.v[i].key = "veilState"
        veil == document.v[top].value.v
        at == CHOOSE j \in 1..Len(veil) : veil[j].key = "facets"
    IN veil[at].value.v

\* C25: once every chunk is handed, the chunks one after the other are one
\* JSON text that parses to the snapshot passed in, its top-level and veilState
\* members once each and in their order; each entry of veilState.facets went
\* out as a chunk of its own, with one comma chunk between two entries.
C25_ChunksParseToSnapshot ==
    spc = "ended" =>
        /\ ParseValue(Concat(handed)) = [ok |-> TRUE, value |-> document, rest |-> <<>>]
        /\ Len(FacetRun) = (IF DocumentFacets = <<>> THEN 0 ELSE 2 * Len(DocumentFacets) - 1)
        /\ \A k \in 1..Len(DocumentFacets) : FacetRun[2 * k - 1] = Stringify(DocumentFacets[k])
        /\ \A k \in 1..(Len(DocumentFacets) - 1) : FacetRun[2 * k] = <<Punct(",")>>

\* a snapshot with members around veilState and around facets, and two
\* facets, has been written out to the end
C25_Witness ==
    /\ sink = "finished"
    /\ Len(document.v) = 3
    /\ Len(DocumentFacets) = 2
    /\ DocumentFacets[1] # DocumentFacets[2]
    /\ \E i \in 1..Len(document.v) : document.v[i].key = "veilState" /\ Len(document.v[i].value.v) = 4

\* ------------------------------------------------------------------ C26
\* C26: the chunks reach the sink in document order; after a write that
\* reported a full buffer no chunk is handed until the sink drains; end() comes
\* only after the last chunk; the promise resolves only on finish, is rejected
\* as soon as the sink errors, and always settles.
C26_OneChunkAtATime ==
    /\ [](handed = SubSeq(Chunks(document), 1, Len(handed)))
    /\ [][needDrain => handed' = handed]_vars
    /\ [](spc = "ended" => handed = Chunks(document))
    /\ [](promise = "resolved" => sink = "finished")
    /\ [](sink = "errored" => promise = "rejected")
    /\ <>(promise \in {"resolved", "rejected"})

\* the sink errored while the body was waiting for it to drain, part of the
\* chunks handed: the body is in its catch and the promise rejected
C26_Witness ==
    /\ spc = "caught"
    /\ needDrain
    /\ sink = "errored"
    /\ promise = "rejected"
    /\ handed # <<>>
    /\ Len(handed) < Len(Chunks(document))
TempFile == fs[TempPath(SnapshotPath)]

\* C27: the temp file gets the snapshot's name only once the promise of
\* streamWriteSnapshot has resolved on the sink's 'finish', and it then holds
\* the whole document. Once the promise has rejected, the stream is destroyed
\* (its file closed), the snapshot stays as it is, no marker is written and
\* the run can only end in failure. The lookup never returns a temp file,
\* wherever the listing has it.
C27_RenameOnlyAfterFinish ==
    /\ [][fs'[SnapshotPath] # fs[SnapshotPath] =>
            /\ promise = "resolved"
            /\ sink = "finished"
            /\ TempFile = FullFile(wout[Migration])
            /\ fs'[SnapshotPath] = TempFile]_vars
    /\ [](promise = "rejected" =>
            /\ sink = "errored"
            /\ wfd[Migration] = NoPath
            /\ wpc[Migration] \in {"writing", "failed"})
    /\ [][promise = "rejected" =>
            /\ fs' = fs
            /\ marker' = marker
            /\ wpc'[Migration] \in {"writing", "failed", "start"}]_vars
    /\ [](/\ ~EndsWithChars(findLatestSnapshot(dir), tmpSuffix)
          /\ ~EndsWithChars(latest, tmpSuffix))

\* a write that failed partway: the run has failed, the temp file is left
\* half-written and listed ahead of the snapshot, which is the original and
\* is what the lookup gave; no marker
C27_Witness ==
    /\ wpc[Migration] = "failed"
    /\ promise = "rejected"
    /\ handed # <<>>
    /\ TempFile.written = "partial"
    /\ TempFile.data # fs[SnapshotPath].data
    /\ fs[SnapshotPath] = original
    /\ ~marker
    /\ dir # Unreadable
    /\ Len(dir) >= 2
    /\ dir[1] = latest \o tmpSuffix
    /\ latest = dir[2]

\* once the marker file exists, no run looks up, reads or changes a snapshot:
\* a run only returns
MarkedRunsOnlyReturn ==
    /\ [](marker => wpc[Migration] \in {"start", "done", "failed"})
    /\ [][marker =>
            /\ marker'
            /\ fs' = fs
            /\ dir' = dir
            /\ latest' = null \/ latest' = latest
            /\ wout'[Migration] = EmptySnapshot \/ wout'[Migration] = wout[Migration]]_vars
    /\ [][(marker /\ wpc[Migration] = "start" /\ wpc'[Migration] # "start") =>
            (wpc'[Migration] = "done" /\ latest' = null)]_vars

\* the marker is written only when the snapshot file is whole and is what the
\* run holds after its loop over the facets: no image is left to compress
MarkedAfterRename ==
    [][(~marker /\ marker') =>
          /\ fs[SnapshotPath] = FullFile(wout[Migration])
          /\ imagesCompressed(fs[SnapshotPath].data.facets) = 0
          /\ wfd[Migration] = NoPath]_vars

\* a start without the marker attempts the migration: it looks the snapshot up
UnmarkedStartAttempts ==
    [][(~marker /\ wpc[Migration] = "start" /\ wpc'[Migration] # "start") =>
          latest' = findLatestSnapshot(dir)]_vars

\* C28, as stated: later runs only return once the marker is written, the
\* marker is written only after the rewritten snapshot is in place, and a
\* run that fails leaves no marker.
C28_FailedRunLeavesNoMarker ==
    /\ MarkedRunsOnlyReturn
    /\ MarkedAfterRename
    /\ UnmarkedStartAttempts
    /\ [][(wpc[Migration] # "failed" /\ wpc'[Migration] = "failed") => ~marker']_vars

\* C28, amended: a run that fails before it writes the marker (at the load,
\* the streamed write or the rename) leaves no marker; a run whose marker
\* write fails may leave the marker file, and then the snapshot is in place.
C28_FailedBeforeMarkLeavesNoMarker ==
    /\ MarkedRunsOnlyReturn
    /\ MarkedAfterRename
    /\ UnmarkedStartAttempts
    /\ [][(wpc[Migration] \notin {"failed", "mark"} /\ wpc'[Migration] = "failed") =>
            ~marker']_vars

\* a second run skipped the migration: the marker is there, the snapshot holds
\* the compressed image where the original held the raw one, the temp file
\* is gone
C28_Witness ==
    /\ marker
    /\ wpc[Migration] = "done"
    /\ latest = null
    /\ wout[Migration] = EmptySnapshot
    /\ fs[SnapshotPath].written = "full"
    /\ original.written = "full"
    /\ imagesCompressed(original.data.facets) > 0
    /\ fs[SnapshotPath].data = migrated(original.data)
    /\ ~TempFile.exists


\* ------------------------------------------------------------------ C29
\* the names of the form snapshot-<sequence>-<timestamp>.json in the directory
WellNamed ==
    IF dir = Unreadable THEN {}
    ELSE {f \in SeqToSet(dir) :
            \E sequence \in {<<"9">>, <<"1", "0">>, <<"0">>}, timestamp \in {<<"1">>, <<"2">>, <<"3">>, <<"4">>} :
                f = SnapshotName(sequence, timestamp)}

\* the sequence number a well-formed name spells, read as a number
NumberOf(f) == ParseDigits(SubSeq(f, Len(snapshotPrefix) + 1, Len(f)), 0)

ContextDeltas(deltas, id) ==
    SelectSeq(deltas, LAMBDA d : /\ d.type = "addFacet"
                                 /\ d.facet.type = "rendered-context"
                                 /\ d.facet.activationId = id)

\* how many rendered-context deltas process() has emitted for an activation:
\* those of the closed frames, of the frame in progress, and those returned
\* and not yet applied
RECURSIVE RenderedIn(_, _)
RenderedIn(frames, id) ==
    IF frames = <<>> THEN 0
    ELSE Len(ContextDeltas(Head(frames).deltas, id)) + RenderedIn(Tail(frames), id)

Rendered(id) ==
    RenderedIn(frameHistory, id) + Len(ContextDeltas(currentFrame.deltas, id))
        + Len(ContextDeltas(returned, id))

\* C31: over any sequence of process() passes the transform emits at most
\* one rendered-context delta for an activation, also after the effector has
\* ended the activation's cycle and the context facet is deleted while the
\* activation facet stays.
C31_ContextRenderedOnce ==
    \A k \in 1..MaxActs : Rendered(ActivationId(k)) <= 1

Running(id) == {c \in 1..Len(cycles) : cycles[c].activationId = id /\ cycles[c].running}

\* C32: at no time are two cycles of one activation id running; a frame that
\* shows an activation whose cycle runs starts nothing; and the step that
\* ends a cycle - completed, thrown, or thrown with the report to Signal
\* failing too - takes its id out of processingActivations.
C32_OneCycleInFlight ==
    /\ [](\A k \in 1..MaxActs : Cardinality(Running(ActivationId(k))) <= 1)
    /\ [](\A k \in 1..MaxActs :
            (ActivationId(k) \in processingActivations) <=> (Running(ActivationId(k)) # {}))
    /\ [][\A c \in 1..Len(cycles) :
            (cycles[c].running /\ ~cycles'[c].running) =>
                cycles[c].activationId \notin processingActivations']_vars

\* a replayed activation was shown to execute() while its cycle ran and
\* started nothing; that cycle, the only one of its id, has since thrown and
\* its id has left the set
C32_Witness ==
    /\ phase = "closing"
    /\ \E i \in 1..Len(currentFrame.deltas) :
         /\ currentFrame.deltas[i].type = "addFacet"
         /\ currentFrame.deltas[i].facet.type = "agent-activation"
         /\ contextExists(stateFacets, currentFrame.deltas[i].id)
         /\ currentFrame.deltas[i].facet.targetAgent = agentName
         /\ \E j \in 1..Len(frameHistory) :
              \E m \in 1..Len(frameHistory[j].deltas) :
                 frameHistory[j].deltas[m].id = currentFrame.deltas[i].id
         /\ Len(cycles) = 1
         /\ cycles[1].activationId = currentFrame.deltas[i].id
         /\ ~cycles[1].running
         /\ emitted = <<>>
         /\ processingActivations = {}

\* C33: a cycle calls generate once, calls sendToolResults at most
\* maxToolRounds times, leaves the loop exactly when the response's stop
\* reason is not 'tool_use', or it carries no tool calls, or maxToolRounds
\* rounds have run, and terminates.
C33_CycleTerminates ==
    /\ [](generated <= 1 /\ (apc # "start" => generated = 1))
    /\ [](resultsSent <= maxToolRounds /\ resultsSent <= toolRounds)
    /\ [][(apc = "loop" /\ apc' = "done") <=>
            (apc = "loop" /\ (\/ response.stopReason # "tool_use"
                              \/ response.toolCalls = <<>>
                              \/ toolRounds = maxToolRounds))]_vars
    /\ <>(apc \in {"done", "failed"})

\* the cycle has ended at the limit of rounds with a response that still asks
\* for tools
C33_Witness ==
    /\ apc = "done"
    /\ maxToolRounds = MaxRounds
    /\ generated = 1
    /\ resultsSent = maxToolRounds
    /\ response.stopReason = "tool_use"
    /\ response.toolCalls # <<>>

\* C34: the results sent in a round are one per tool call of the preceding
\* response, in its order and with its ids; a call of an unknown tool or of a
\* handler that throws yields a result with an error text, and running the
\* tools never makes the cycle fail.
C34_ResultPerToolCall ==
    /\ [](apc = "send" =>
            /\ Len(toolResults) = Len(response.toolCalls)
            /\ \A i \in 1..Len(toolResults) :
                 /\ toolResults[i].tool_use_id = response.toolCalls[i].id
                 /\ response.toolCalls[i].name \notin tools =>
                        toolResults[i].content = "Error: Unknown tool")
    /\ [][(apc = "loop" /\ LoopGoesOn) => apc' = "send"]_vars

\* the tool_use and tool_result ids carried by the messages of a request
IdsOf(messages, type) ==
    UNION {{messages[i].content[j].id :
               j \in {n \in 1..Len(messages[i].content) : messages[i].content[n].type = type}} :
           i \in 1..Len(messages)}

\* C35: the conversation sent in a tool round carries the assistant tool-use
\* message and the tool results of every earlier round as well as those of
\* the round itself.
C35_EarlierRoundsSent ==
    resultsSent >= 1 =>
        \A i \in 1..Len(obtained) :
            /\ obtained[i] \in IdsOf(request, "tool_use")
            /\ obtained[i] \in IdsOf(request, "tool_result")

\* the errors the claim names: a status of 429, 500, 502, 503 or 504, or a
\* message of the connection or timeout kind
NamedRetryable(error) ==
    \/ error.status \in {429, 500, 502, 503, 504}
    \/ \E part \in {<<"c", "o", "n", "n">>, <<"t", "i", "m", "e", "o", "u", "t">>,
                     <<"t", "h", "r", "o", "t", "t", "l">>} :
          Includes(toLowerCase(error.message), part)

OwnBlocks(messages) ==
    SelectSeq(Flat(messages),
              LAMBDA b : b.text \notin {"[continue]", "[conversation history]"})

\* C37: the message list of every Bedrock request, of generate and of
\* sendToolResults, starts with a user message and has no two neighbours of
\* one role, whatever the roles of the conversation handed in; the contents
\* keep their order.
C37_AlternatingRoles ==
    bpc \in {"generate", "sendToolResults"} =>
        /\ bedrockMessages # <<>> => bedrockMessages[1].role = "user"
        /\ \A i \in 1..(Len(bedrockMessages) - 1) :
             bedrockMessages[i].role # bedrockMessages[i + 1].role
        /\ OwnBlocks(bedrockMessages) =
             Flat(Formatted(llmMessages))
                \o (IF bpc = "sendToolResults"
                    THEN <<ToolUseBlock(someToolCall), ToolResultBlock(someToolResult)>>
                    ELSE <<>>)

\* how often a message stands in a sequence of payloads or messages
TimesIn(seq, m) == Cardinality({i \in 1..Len(seq) : seq[i] = m})

NoRejection == \A c \in 1..Len(chains) : chains[c].stage # "rejected"

\* C38: a message queued through reconnectBot is emitted again exactly once:
\* at every moment it is either still pending, once, or emitted, once; it is
\* emitted in the step in which a start that followed a stop has resolved,
\* and that step leaves the bot's pending queue empty; and while no stop or
\* start rejects, every pending message does get emitted, however the calls
\* for the bot interleave.
C38_ReEmittedOnce ==
    /\ [](\A c \in 1..Len(chains) :
            chains[c].message # 0 =>
                TimesIn(pendingMessages, chains[c].message)
                    + TimesIn(reEmitted, updatedPayload(chains[c].message)) = 1)
    /\ [][reEmitted' # reEmitted =>
            /\ \E c \in 1..Len(chains) :
                 chains[c].stage = "starting" /\ chains'[c].stage = "done"
            /\ pendingMessages' = <<>>]_vars
    /\ \A m \in 1..(MaxReconnects + 1) :
         (TimesIn(pendingMessages, m) > 0) ~>
             (TimesIn(reEmitted, updatedPayload(m)) = 1 \/ ~NoRejection)

\* two calls for the bot overlapped: the second queued its message before
\* the first call's start resolved, and that start emitted both messages
\* while the second call's stop is still pending
C38_Witness ==
    /\ Len(chains) = 2
    /\ chains[1].message = 1
    /\ chains[2].message = 2
    /\ chains[1].stage = "done"
    /\ chains[2].stage = "stopping"
    /\ reEmitted = <<updatedPayload(1), updatedPayload(2)>>
    /\ pendingMessages = <<>>

\* C39: a second pass of the receptor over an agent's speech facet leaves
\* the content as the first pass left it, whatever the content was, the
\* empty one and the one that is empty once its tags are stripped included;
\* every pass returns no deltas; a facet that is not an agent's speech facet
\* keeps its content.
C39_PrefixIdempotent ==
    /\ \A i \in 1..Len(returnedDeltas) : returnedDeltas[i] = <<>>
    /\ \A i \in 2..(Len(contents) - 1) : contents[i + 1] = contents[i]
    /\ (opType # "none" /\ ~(opType = "addFacet" /\ IsAgentSpeech(opFacet))) =>
           \A i \in 1..Len(contents) : contents[i] = contents[1]
====
